---- MODULE Spec2Model ----
(***************************************************************************)
(* Model of the bourso-api session client.                                 *)
(*                                                                         *)
(* Part 1: the transfer workflow engine, BoursoWebClient::transfer_funds   *)
(* (bourso_api/src/client/transfer/mod.rs). transfer_funds returns a lazy  *)
(* stream built by async_stream::stream!: the body is a generator that     *)
(* runs only while the caller polls it (stream.next().await), suspends at  *)
(* each `yield` and at each HTTP `.await`, and is simply dropped when the  *)
(* caller stops.                                                           *)
(*                                                                         *)
(* Part 2: BoursoWebClient::login (bourso_api/src/client/mod.rs).          *)
(***************************************************************************)
EXTENDS Integers, Sequences, FiniteSets, TLC

\* ------------------------------------------------------------------------
\* Bounds of the model
\* ------------------------------------------------------------------------
\* Reasons are drawn with up to MAX_REASON_LEN + MaxOver characters.
MaxOver == 1

\* ------------------------------------------------------------------------
\* Program constants
\* ------------------------------------------------------------------------
\* `if r.len() > 50`
MAX_REASON_LEN == 50
\* `if amount < 10.0`, in hundredths of a currency unit
MIN_AMOUNT_CENTS == 1000
\* `.split('/').nth(7)`
TRANSFER_ID_SEGMENT == 7

\* ------------------------------------------------------------------------
\* Values
\* ------------------------------------------------------------------------
Ok(v) == [ok |-> TRUE, v |-> v]
Err(e) == [ok |-> FALSE, v |-> e]

Last(s) == s[Len(s)]

Rep(c, n) == [i \in 1..n |-> c]

\* enum TransferError
TransferError ==
    { "AmountTooLow", "TransferInitiationFailed", "SetDebitAccountFailed",
      "SetCreditAccountFailed", "Step7Failed", "SetAmountFailed",
      "SetReasonFailed", "ReasonIsTooLong", "SubmitTransferFailed",
      "InvalidTransfer" }

\* enum TransferProgress, in declaration order (step_number 1..10)
TransferProgress ==
    << "Validating", "InitializingTransfer", "ExtractingFlowInstance",
       "SettingDebitAccount", "SettingCreditAccount", "SettingAmount",
       "SubmittingStep7", "SettingReason", "ConfirmingTransfer", "Completed" >>

\* Characters of a reason: "a" stands for any ASCII letter, "E" for a
\* two-byte character such as U+00E9, "U" for a three-byte one such as U+20AC.
Utf8Len(c) == IF c = "E" THEN 2 ELSE IF c = "U" THEN 3 ELSE 1

\* str::len(): the length of the UTF-8 encoding, in bytes
RECURSIVE StrLen(_)
StrLen(s) == IF s = <<>> THEN 0 ELSE Utf8Len(Head(s)) + StrLen(Tail(s))

\* str.chars().count(): the number of characters
CharCount(s) == Len(s)

\* "Virement depuis BoursoBank"
DEFAULT_REASON ==
    << "V","i","r","e","m","e","n","t"," ","d","e","p","u","i","s"," ",
       "B","o","u","r","s","o","B","a","n","k" >>

\* f64 amounts: a NaN, or a finite value in hundredths
NaN == [nan |-> TRUE, cents |-> 0]
Finite(c) == [nan |-> FALSE, cents |-> c]

\* f64 `a < 10.0` (false for NaN)
LessThanMin(a) == ~a.nan /\ a.cents < MIN_AMOUNT_CENTS

Pad2(n) == IF n < 10 THEN "0" \o ToString(n) ELSE ToString(n)

\* format!("{:.2}", amount).replace('.', ",") for the amounts that reach it
FormatAmount(a) ==
    IF a.nan THEN "NaN"
    ELSE ToString(a.cents \div 100) \o "," \o Pad2(a.cents % 100)

\* ------------------------------------------------------------------------
\* Inputs of transfer_funds
\* ------------------------------------------------------------------------
Amounts == { Finite(-500), Finite(999), Finite(1000), Finite(2550), NaN }

ReasonLens ==
    { 0, MAX_REASON_LEN \div 2, (MAX_REASON_LEN \div 2) + 1,
      MAX_REASON_LEN - 1, MAX_REASON_LEN }
    \cup { MAX_REASON_LEN + k : k \in 1..MaxOver }

ReasonStrings ==
    { Rep("a", n) : n \in ReasonLens }
    \cup { Rep("E", n) : n \in { (MAX_REASON_LEN \div 2), (MAX_REASON_LEN \div 2) + 1,
                                 MAX_REASON_LEN } }
    \cup { Rep("a", MAX_REASON_LEN - 1) \o <<"E">>, Rep("a", MAX_REASON_LEN - 3) \o <<"U">> }

\* Option<String>
NoReason == [some |-> FALSE, s |-> <<>>]
Reasons == { NoReason } \cup { [some |-> TRUE, s |-> s] : s \in ReasonStrings }

\* Account { id, kind, .. }
Accounts ==
    { [id |-> "acc1", kind |-> "Banking"], [id |-> "acc2", kind |-> "Savings"] }

\* ------------------------------------------------------------------------
\* What the portal may answer to a request
\* ------------------------------------------------------------------------
NoLocation == [present |-> FALSE, ascii |-> TRUE, segs |-> <<>>]
\* "/compte/cav/XXXXXXX/virements/immediat/nouveau/YYYYY/1", split on '/'
WizardLocation(t) ==
    [present |-> TRUE, ascii |-> TRUE,
     segs |-> << "", "compte", "cav", "X", "virements", "immediat", "nouveau", t, "1" >>]
ShortLocation == [present |-> TRUE, ascii |-> TRUE, segs |-> << "", "connexion", "" >>]
OpaqueLocation == [present |-> TRUE, ascii |-> FALSE, segs |-> <<>>]

NoFlow == "-"

Response(io, status, location, flow, confirmation) ==
    [io |-> io, status |-> status, location |-> location, flow |-> flow,
     confirmation |-> confirmation]

NoResponse == Response("none", 0, NoLocation, NoFlow, FALSE)

\* io: "ok", "sendErr" (send().await fails), "bodyErr" (text().await fails)
Responses ==
    { Response("sendErr", 0, NoLocation, NoFlow, FALSE),
      Response("bodyErr", 200, NoLocation, NoFlow, FALSE),
      Response("ok", 302, WizardLocation("t1"), NoFlow, FALSE),
      Response("ok", 302, WizardLocation("t2"), NoFlow, FALSE),
      Response("ok", 302, NoLocation, NoFlow, FALSE),
      Response("ok", 302, ShortLocation, NoFlow, FALSE),
      Response("ok", 302, OpaqueLocation, NoFlow, FALSE),
      Response("ok", 200, NoLocation, "f1", FALSE),
      Response("ok", 200, NoLocation, "f2", TRUE),
      Response("ok", 200, NoLocation, NoFlow, FALSE),
      Response("ok", 200, NoLocation, NoFlow, TRUE),
      Response("ok", 500, NoLocation, NoFlow, TRUE) }

VARIABLES
    amount, from_account, to_account, reason,   \* arguments of transfer_funds
    pc,              \* where the generator is suspended
    caller,          \* "idle", "polling" (a next() is outstanding), "dropped"
    polls,           \* number of next() calls the caller has made
    events,          \* the items the stream has yielded
    requests,        \* the HTTP requests sent, in order
    results,         \* the Result of each step function that has returned
    response,        \* the last HTTP response received
    transfer_id, flow_instance, transfer_reason   \* locals of the generator

tvars == << amount, from_account, to_account, reason, pc, caller, polls, events,
            requests, results, response, transfer_id, flow_instance, transfer_reason >>


VARIABLES
    brs_mit_cookie, token, config, challenge_id, virtual_pad_ids,
    customer_id, password,      \* fields of BoursoWebClient
    cookie_store,               \* the cookies the client inserted itself
    info_enabled,               \* whether the INFO level of the log is enabled
    lpc,                        \* where init_session or login is suspended
    calls,                      \* init_session and login calls made
    lrequests,                  \* the HTTP requests sent, in order
    lret,                       \* what the last call returned
    page,                       \* the landing page the last login call received
    authenticated,              \* a login or submit_mfa has returned Ok on this client
    frame                       \* locals of the call under way (or of the last one)

VARIABLES
    front,           \* who calls the client: "none" (any caller of the library),
                     \* "lib" (parse_matches) or "auth" (AuthService)
    dpc,             \* the operation the front-end calls next, or "await", "done", "failed"
    mfa_count,       \* mfa_count of the front-end
    held,            \* (otp_id, token_form, mfa_type) the front-end got from request_mfa
    oplog            \* the calls the front-end made and the outcomes it observed

VARIABLES
    pad_res,         \* a keypad fragment given to extract_data_matrix_keys
    pad_keys,        \* what extract_data_matrix_keys returned for it
    pad_pw,          \* a password given to password_to_virtual_pad_keys
    pad_enc,         \* what password_to_virtual_pad_keys returned for it
    bal_shown,       \* a balance as the accounts page shows it (see Shown)
    bal_parsed       \* what the parsing of extract_accounts made of its text

VARIABLES
    money_arg,       \* an f64 given to MoneyAmount::new
    money_new,       \* what MoneyAmount::new returned for it
    cmd,             \* the transfer or order command a front-end was given
    cmd_ret          \* what the command returned

\* the legacy client (bourso/client.rs) during login
VARIABLES
    leg_password,    \* the password given to login
    leg_pc,          \* the await login or the hand-off is suspended at
    leg_requests,    \* the requests sent so far
    leg_pages,       \* the answers received so far, each with its step
    leg_config,      \* self.config
    leg_ret          \* what login returned

session == << brs_mit_cookie, token, config, challenge_id, virtual_pad_ids,
              customer_id, password, cookie_store >>
lvars == << session, info_enabled, lpc, calls, lrequests, lret, page, authenticated, frame >>

mvars == << front, dpc, mfa_count, held, oplog >>

legvars == << leg_password, leg_pc, leg_requests, leg_pages, leg_config, leg_ret >>

xvars == << money_arg, money_new, cmd, cmd_ret, legvars >>

kvars == << pad_res, pad_keys, pad_pw, pad_enc, bal_shown, bal_parsed, xvars >>

vars == << tvars, lvars, mvars, kvars >>

TInit ==
    /\ amount \in Amounts
    /\ from_account \in Accounts
    /\ to_account \in Accounts
    /\ reason \in Reasons
    /\ pc = "start"
    /\ caller = "idle"
    /\ polls = 0
    /\ events = <<>>
    /\ requests = <<>>
    /\ results = <<>>
    /\ response = NoResponse
    /\ transfer_id = "-"
    /\ flow_instance = NoFlow
    /\ transfer_reason = <<>>

\* ------------------------------------------------------------------------
\* The step functions: the request each sends and the Result it returns
\* for a response
\* ------------------------------------------------------------------------
Url(from, tid, n) == [from |-> from, tid |-> tid, page |-> n]

\* send().await? or text().await? failing: a reqwest::Error, not a TransferError
TransportError == "reqwest::Error"

init_transfer_request(from) ==
    [name |-> "init_transfer", method |-> "GET", url |-> Url(from, "-", "-"),
     form |-> [none |-> TRUE]]

init_transfer(resp) ==
    IF resp.io = "sendErr" THEN Err(TransportError)
    ELSE IF resp.status # 302 THEN Err("TransferInitiationFailed")
    ELSE IF ~resp.location.present THEN Err("Missing Location header")
    ELSE IF ~resp.location.ascii THEN Err("ToStrError")
    ELSE IF Len(resp.location.segs) < TRANSFER_ID_SEGMENT + 1
         THEN Err("Failed to extract transfer id")
    ELSE Ok(resp.location.segs[TRANSFER_ID_SEGMENT + 1])

extract_flow_instance_request(from, tid) ==
    [name |-> "extract_flow_instance", method |-> "GET", url |-> Url(from, tid, "1"),
     form |-> [none |-> TRUE]]

extract_flow_instance(resp) ==
    IF resp.io = "sendErr" THEN Err(TransportError)
    ELSE IF resp.status # 200 THEN Err("TransferInitiationFailed")
    ELSE IF resp.io = "bodyErr" THEN Err(TransportError)
    ELSE IF resp.flow = NoFlow THEN Err("Failed to extract flow instance")
    ELSE Ok(resp.flow)

set_debit_account_request(from, tid, flow) ==
    [name |-> "set_debit_account", method |-> "POST", url |-> Url(from, tid, "2"),
     form |-> [instance |-> flow, step |-> "1", debit |-> from]]

set_debit_account(resp) ==
    IF resp.io = "sendErr" THEN Err(TransportError)
    ELSE IF resp.status # 200 THEN Err("SetDebitAccountFailed")
    ELSE Ok("()")

\* (mutation) the new-beneficiary field is sent whatever the source account
set_credit_account_request_Always(from, to, tid, flow, transfer_from_banking) ==
    [name |-> "set_credit_account", method |-> "POST", url |-> Url(from, tid, "3"),
     form |-> [newBeneficiary |-> "0", instance |-> flow, step |-> "2", credit |-> to]]

set_credit_account_request(from, to, tid, flow, transfer_from_banking) ==
    [name |-> "set_credit_account", method |-> "POST", url |-> Url(from, tid, "3"),
     form |-> IF transfer_from_banking
              THEN [newBeneficiary |-> "0", instance |-> flow, step |-> "2", credit |-> to]
              ELSE [instance |-> flow, step |-> "2", credit |-> to]]

set_credit_account(resp) ==
    IF resp.io = "sendErr" THEN Err(TransportError)
    ELSE IF resp.status # 200 THEN Err("SetCreditAccountFailed")
    ELSE Ok("()")

set_transfer_amount_request(from, tid, flow, a) ==
    [name |-> "set_transfer_amount", method |-> "POST", url |-> Url(from, tid, "6"),
     form |-> [instance |-> flow, step |-> "5", amount |-> FormatAmount(a),
               transition |-> "", submit |-> ""]]

set_transfer_amount(resp) ==
    IF resp.io = "sendErr" THEN Err(TransportError)
    ELSE IF resp.status # 200 THEN Err("SetAmountFailed")
    ELSE Ok("()")

submit_step_7_request(from, tid, flow) ==
    [name |-> "submit_step_7", method |-> "POST", url |-> Url(from, tid, "7"),
     form |-> [transition |-> "", instance |-> flow, step |-> "6", submit |-> ""]]

submit_step_7(resp) ==
    IF resp.io = "sendErr" THEN Err(TransportError)
    ELSE IF resp.status # 200 THEN Err("Step7Failed")
    ELSE Ok("()")

\* (mutation) transfer_id and flow_instance passed in each other's place
set_transfer_reason_request_Swapped(from, tid, flow, label) ==
    [name |-> "set_transfer_reason", method |-> "POST", url |-> Url(from, flow, "10"),
     form |-> [instance |-> tid, step |-> "9", label |-> label, schedulingType |-> "1",
               transition |-> "", submit |-> ""]]

set_transfer_reason_request(from, tid, flow, label) ==
    [name |-> "set_transfer_reason", method |-> "POST", url |-> Url(from, tid, "10"),
     form |-> [instance |-> flow, step |-> "9", label |-> label, schedulingType |-> "1",
               transition |-> "", submit |-> ""]]

set_transfer_reason(resp) ==
    IF resp.io = "sendErr" THEN Err(TransportError)
    ELSE IF resp.status # 200 THEN Err("SetReasonFailed")
    ELSE Ok("()")

confirm_transfer_request(from, tid, flow) ==
    [name |-> "confirm_transfer", method |-> "POST", url |-> Url(from, tid, "12"),
     form |-> [instance |-> flow, step |-> "11", transition |-> "", submit |-> ""]]

\* (mutation) the status alone decides
confirm_transfer_StatusOnly(resp) ==
    IF resp.io = "sendErr" THEN Err(TransportError)
    ELSE IF resp.status # 200 THEN Err("SubmitTransferFailed")
    ELSE IF resp.io = "bodyErr" THEN Err(TransportError)
    ELSE Ok("()")

confirm_transfer(resp) ==
    IF resp.io = "sendErr" THEN Err(TransportError)
    ELSE IF resp.status # 200 THEN Err("SubmitTransferFailed")
    ELSE IF resp.io = "bodyErr" THEN Err(TransportError)
    ELSE IF resp.confirmation THEN Ok("()")
    ELSE Err("InvalidTransfer")

\* (mutation) the reason is not checked
Validate_NoReasonCheck(a, r) ==
    IF LessThanMin(a) THEN Err("AmountTooLow")
    ELSE IF r.some THEN Ok(r.s) ELSE Ok(DEFAULT_REASON)

\* The validation at the head of the generator: the error it yields, or
\* the transfer_reason it binds
Validate(a, r) ==
    IF LessThanMin(a) THEN Err("AmountTooLow")
    ELSE IF r.some
         THEN IF StrLen(r.s) > MAX_REASON_LEN THEN Err("ReasonIsTooLong") ELSE Ok(r.s)
         ELSE Ok(DEFAULT_REASON)

\* ------------------------------------------------------------------------
\* The generator, one action per resumption
\* ------------------------------------------------------------------------
inputs == << amount, from_account, to_account, reason >>
locals == << transfer_id, flow_instance, transfer_reason >>

\* (mutation) the generator is driven by a spawned task, not by the caller
Called_Spawned(p) == pc = p /\ polls' = polls

\* the caller calls stream.next() on a generator suspended at p
Called(p) == caller = "idle" /\ pc = p /\ polls' = polls + 1

\* `yield item`: the outstanding next() returns Some(item)
Yield(item, nextpc) ==
    /\ events' = Append(events, item)
    /\ pc' = nextpc
    /\ caller' = "idle"

\* `self.client...send().await`: the request leaves, the generator waits
Send(req, nextpc) ==
    /\ requests' = Append(requests, req)
    /\ pc' = nextpc
    /\ caller' = "polling"

\* the response to the awaited request arrives while next() is outstanding
Received(p, resp) == caller = "polling" /\ pc = p /\ response' = resp

\* (mutation) the `return` after `yield Err(e)` is missing
Settle_NoReturn(r, progress, nextpc) ==
    /\ results' = Append(results, r)
    /\ IF r.ok THEN Yield(Ok(progress), nextpc) ELSE Yield(Err(r.v), nextpc)

\* a step function returned r: on Ok go on to the next `yield Ok(..)`, on
\* Err `yield Err(e)` (the `return` runs at the next resumption)
Settle(r, progress, nextpc) ==
    /\ results' = Append(results, r)
    /\ IF r.ok THEN Yield(Ok(progress), nextpc) ELSE Yield(Err(r.v), "y_Err")

PollStart ==
    /\ Called("start")
    /\ Yield(Ok("Validating"), "y_Validating")
    /\ UNCHANGED << inputs, locals, requests, results, response >>
    /\ UNCHANGED << lvars, mvars, kvars >>

PollValidate ==
    /\ Called("y_Validating")
    /\ LET v == Validate(amount, reason) IN
         IF v.ok
         THEN /\ transfer_reason' = v.v
              /\ Yield(Ok("InitializingTransfer"), "y_InitializingTransfer")
         ELSE /\ UNCHANGED transfer_reason
              /\ Yield(Err(v.v), "y_Err")
    /\ UNCHANGED << inputs, transfer_id, flow_instance, requests, results, response >>
    /\ UNCHANGED << lvars, mvars, kvars >>

PollInitializingTransfer ==
    /\ Called("y_InitializingTransfer")
    /\ Send(init_transfer_request(from_account.id), "a_init_transfer")
    /\ UNCHANGED << inputs, locals, events, results, response >>
    /\ UNCHANGED << lvars, mvars, kvars >>

RespondInitTransfer ==
    \E resp \in Responses :
        /\ Received("a_init_transfer", resp)
        /\ LET r == init_transfer(resp) IN
             /\ Settle(r, "ExtractingFlowInstance", "y_ExtractingFlowInstance")
             /\ transfer_id' = IF r.ok THEN r.v ELSE transfer_id
        /\ UNCHANGED << inputs, polls, flow_instance, transfer_reason, requests >>
        /\ UNCHANGED << lvars, mvars, kvars >>

PollExtractingFlowInstance ==
    /\ Called("y_ExtractingFlowInstance")
    /\ Send(extract_flow_instance_request(from_account.id, transfer_id),
            "a_extract_flow_instance")
    /\ UNCHANGED << inputs, locals, events, results, response >>
    /\ UNCHANGED << lvars, mvars, kvars >>

RespondExtractFlowInstance ==
    \E resp \in Responses :
        /\ Received("a_extract_flow_instance", resp)
        /\ LET r == extract_flow_instance(resp) IN
             /\ Settle(r, "SettingDebitAccount", "y_SettingDebitAccount")
             /\ flow_instance' = IF r.ok THEN r.v ELSE flow_instance
        /\ UNCHANGED << inputs, polls, transfer_id, transfer_reason, requests >>
        /\ UNCHANGED << lvars, mvars, kvars >>

PollSettingDebitAccount ==
    /\ Called("y_SettingDebitAccount")
    /\ Send(set_debit_account_request(from_account.id, transfer_id, flow_instance),
            "a_set_debit_account")
    /\ UNCHANGED << inputs, locals, events, results, response >>
    /\ UNCHANGED << lvars, mvars, kvars >>

\* (mutation) a failed step is sent again
RespondSetDebitAccount_Retries ==
    \E resp \in Responses :
        /\ Received("a_set_debit_account", resp)
        /\ LET r == set_debit_account(resp) IN
             /\ results' = Append(results, r)
             /\ IF r.ok
                THEN Yield(Ok("SettingCreditAccount"), "y_SettingCreditAccount")
                ELSE Yield(Ok("SettingDebitAccount"), "y_SettingDebitAccount")
        /\ UNCHANGED << inputs, polls, locals, requests >>
        /\ UNCHANGED << lvars, mvars, kvars >>

RespondSetDebitAccount ==
    \E resp \in Responses :
        /\ Received("a_set_debit_account", resp)
        /\ Settle(set_debit_account(resp), "SettingCreditAccount", "y_SettingCreditAccount")
        /\ UNCHANGED << inputs, polls, locals, requests >>
        /\ UNCHANGED << lvars, mvars, kvars >>

PollSettingCreditAccount ==
    /\ Called("y_SettingCreditAccount")
    /\ Send(set_credit_account_request(from_account.id, to_account.id, transfer_id,
                                       flow_instance, from_account.kind = "Banking"),
            "a_set_credit_account")
    /\ UNCHANGED << inputs, locals, events, results, response >>
    /\ UNCHANGED << lvars, mvars, kvars >>

RespondSetCreditAccount ==
    \E resp \in Responses :
        /\ Received("a_set_credit_account", resp)
        /\ Settle(set_credit_account(resp), "SettingAmount", "y_SettingAmount")
        /\ UNCHANGED << inputs, polls, locals, requests >>
        /\ UNCHANGED << lvars, mvars, kvars >>

PollSettingAmount ==
    /\ Called("y_SettingAmount")
    /\ Send(set_transfer_amount_request(from_account.id, transfer_id, flow_instance, amount),
            "a_set_transfer_amount")
    /\ UNCHANGED << inputs, locals, events, results, response >>
    /\ UNCHANGED << lvars, mvars, kvars >>

\* (mutation) the progress value of the previous step is yielded again
RespondSetTransferAmount_WrongProgress ==
    \E resp \in Responses :
        /\ Received("a_set_transfer_amount", resp)
        /\ Settle(set_transfer_amount(resp), "SettingAmount", "y_SubmittingStep7")
        /\ UNCHANGED << inputs, polls, locals, requests >>
        /\ UNCHANGED << lvars, mvars, kvars >>

RespondSetTransferAmount ==
    \E resp \in Responses :
        /\ Received("a_set_transfer_amount", resp)
        /\ Settle(set_transfer_amount(resp), "SubmittingStep7", "y_SubmittingStep7")
        /\ UNCHANGED << inputs, polls, locals, requests >>
        /\ UNCHANGED << lvars, mvars, kvars >>

PollSubmittingStep7 ==
    /\ Called("y_SubmittingStep7")
    /\ Send(submit_step_7_request(from_account.id, transfer_id, flow_instance),
            "a_submit_step_7")
    /\ UNCHANGED << inputs, locals, events, results, response >>
    /\ UNCHANGED << lvars, mvars, kvars >>

RespondSubmitStep7 ==
    \E resp \in Responses :
        /\ Received("a_submit_step_7", resp)
        /\ Settle(submit_step_7(resp), "SettingReason", "y_SettingReason")
        /\ UNCHANGED << inputs, polls, locals, requests >>
        /\ UNCHANGED << lvars, mvars, kvars >>

PollSettingReason ==
    /\ Called("y_SettingReason")
    /\ Send(set_transfer_reason_request(from_account.id, transfer_id, flow_instance,
                                        transfer_reason),
            "a_set_transfer_reason")
    /\ UNCHANGED << inputs, locals, events, results, response >>
    /\ UNCHANGED << lvars, mvars, kvars >>

RespondSetTransferReason ==
    \E resp \in Responses :
        /\ Received("a_set_transfer_reason", resp)
        /\ Settle(set_transfer_reason(resp), "ConfirmingTransfer", "y_ConfirmingTransfer")
        /\ UNCHANGED << inputs, polls, locals, requests >>
        /\ UNCHANGED << lvars, mvars, kvars >>

PollConfirmingTransfer ==
    /\ Called("y_ConfirmingTransfer")
    /\ Send(confirm_transfer_request(from_account.id, transfer_id, flow_instance),
            "a_confirm_transfer")
    /\ UNCHANGED << inputs, locals, events, results, response >>
    /\ UNCHANGED << lvars, mvars, kvars >>

RespondConfirmTransfer ==
    \E resp \in Responses :
        /\ Received("a_confirm_transfer", resp)
        /\ Settle(confirm_transfer(resp), "Completed", "y_Completed")
        /\ UNCHANGED << inputs, polls, locals, requests >>
        /\ UNCHANGED << lvars, mvars, kvars >>

\* resumed after `yield Err(..)` the generator runs `return`; resumed after
\* `yield Ok(Completed)` it runs off its end: next() returns None
PollReturn ==
    /\ pc \in { "y_Err", "y_Completed" }
    /\ Called(pc)
    /\ pc' = "done"
    /\ UNCHANGED << inputs, locals, caller, events, requests, results, response >>
    /\ UNCHANGED << lvars, mvars, kvars >>

\* the caller stops advancing the sequence and drops the stream (an
\* awaited request is abandoned with it)
Drop ==
    /\ caller # "dropped"
    /\ caller' = "dropped"
    /\ UNCHANGED << inputs, locals, pc, polls, events, requests, results, response >>
    /\ UNCHANGED << lvars, mvars, kvars >>

TNext ==
    \/ PollStart
    \/ PollValidate
    \/ PollInitializingTransfer
    \/ RespondInitTransfer
    \/ PollExtractingFlowInstance
    \/ RespondExtractFlowInstance
    \/ PollSettingDebitAccount
    \/ RespondSetDebitAccount
    \/ PollSettingCreditAccount
    \/ RespondSetCreditAccount
    \/ PollSettingAmount
    \/ RespondSetTransferAmount
    \/ PollSubmittingStep7
    \/ RespondSubmitStep7
    \/ PollSettingReason
    \/ RespondSetTransferReason
    \/ PollConfirmingTransfer
    \/ RespondConfirmTransfer
    \/ PollReturn
    \/ Drop


\* ========================================================================
\* Part 2: the session and BoursoWebClient::init_session / login
\* ========================================================================

\* ------------------------------------------------------------------------
\* Bounds of the model
\* ------------------------------------------------------------------------
\* init_session and login are called at most MaxCalls times in all
MaxCalls == 3

\* the longest password of the exhaustive encoding inputs
MaxPwLen == 2

\* the number of calls made on a client while a transfer is advanced on it
MaxSharedCalls == 1

\* the number of trading calls made on a client
MaxTradeCalls == 1

\* the largest of the consecutive amounts given to MoneyAmount::new, in
\* thousandths of a currency unit
MaxMilli == 1100

\* ------------------------------------------------------------------------
\* Program constants
\* ------------------------------------------------------------------------
\* `let mut keys: [&str; 10] = Default::default();`
KEYPAD_SIZE == 10

\* a panic (an unwrap of None, an index out of bounds): the call does not return
PANIC == "panic"

\* Option<String>::None
None == "None"

\* Config::default(), and the Config values a page's BRS_CONFIG blob holds
DefaultConfig == [user_hash |-> None, default_api_bearer |-> ""]
ScrapedConfig(kind) ==
    [user_hash |-> IF kind = "ok" THEN "h1" ELSE None, default_api_bearer |-> "jwt"]

\* the BRS_CONFIG blob of a page: "missing" (no `window.BRS_CONFIG = ..;`),
\* "malformed" (not the JSON of a Config), "nohash" (no USER_HASH), "ok"
ConfigKinds == { "missing", "malformed", "nohash", "ok" }

extract_brs_config(kind) ==
    IF kind = "missing" THEN Err(PANIC)
    ELSE IF kind = "malformed" THEN Err("Could not deserialize BRS_CONFIG")
    ELSE Ok(ScrapedConfig(kind))

\* the login page: its inline __brs_mit cookie, form token and BRS_CONFIG
LoginPage(io, cookie, tok, cfg) == [io |-> io, cookie |-> cookie, token |-> tok, config |-> cfg]
LoginPages ==
    { LoginPage("sendErr", FALSE, FALSE, "missing"),
      LoginPage("ok", FALSE, FALSE, "missing"),
      LoginPage("ok", TRUE, FALSE, "nohash"),
      LoginPage("ok", TRUE, TRUE, "missing"),
      LoginPage("ok", TRUE, TRUE, "malformed"),
      LoginPage("ok", TRUE, TRUE, "nohash") }

extract_brs_mit_cookie(res) ==
    IF res.cookie THEN Ok("mit") ELSE Err("Could not extract brs mit cookie")

extract_token(res) == IF res.token THEN Ok("token") ELSE Err(PANIC)

\* the glyph images of the digits 0..9 (entry d + 1 depicts digit d), and
\* an image that depicts no digit
SVG_OF_DIGIT ==
    << "svg0", "svg1", "svg2", "svg3", "svg4", "svg5", "svg6", "svg7", "svg8", "svg9" >>
UNKNOWN_SVG == "svg?"

\* virtual_pad::get_number_for_svg: the digit of a glyph image, by exact
\* comparison with the reference images; -1 stands for None
get_number_for_svg(svg) ==
    IF \E d \in 1..Len(SVG_OF_DIGIT) : SVG_OF_DIGIT[d] = svg
    THEN (CHOOSE d \in 1..Len(SVG_OF_DIGIT) : SVG_OF_DIGIT[d] = svg) - 1
    ELSE -1

\* the keypad fragment: its challenge id ("" when it has none) and its keys,
\* each a button with a key identifier (data-matrix-key) and a glyph image
\* (src); each fragment the portal serves has a challenge id of its own
KeyIds == << "AAA", "BBB", "CCC", "DDD", "EEE", "FFF", "GGG", "HHH", "III", "JJJ" >>
Keys(perm) ==
    [i \in 1..KEYPAD_SIZE |-> [key |-> KeyIds[i], svg |-> SVG_OF_DIGIT[perm[i] + 1]]]
Straight == [i \in 1..KEYPAD_SIZE |-> i - 1]
Reversed == [i \in 1..KEYPAD_SIZE |-> KEYPAD_SIZE - i]
Fragment(io, challenge, keys) == [io |-> io, challenge |-> challenge, keys |-> keys]
Fragments ==
    { Fragment("ok", "challenge", Keys(Straight)),
      Fragment("ok", "challenge2", Keys(Reversed)),
      Fragment("ok", "challenge3", SubSeq(Keys(Reversed), 1, KEYPAD_SIZE - 1)),
      Fragment("ok", "challenge4", [Keys(Straight) EXCEPT ![3].svg = UNKNOWN_SVG]),
      Fragment("ok", "", Keys(Straight)),
      Fragment("sendErr", "", <<>>) }

\* keypads that show the 10 digits once each: the digits in order from any
\* start, in reverse order from any start, and in order with two exchanged
Rotated(c) == [i \in 1..KEYPAD_SIZE |-> (i - 1 + c) % KEYPAD_SIZE]
ReversedFrom(c) == [i \in 1..KEYPAD_SIZE |-> (c + KEYPAD_SIZE - i) % KEYPAD_SIZE]
Exchanged(a, b) == [i \in 1..KEYPAD_SIZE |-> IF i = a THEN b - 1 ELSE IF i = b THEN a - 1 ELSE i - 1]
Shuffles ==
    { Rotated(c) : c \in 0..(KEYPAD_SIZE - 1) }
      \cup { ReversedFrom(c) : c \in 0..(KEYPAD_SIZE - 1) }
      \cup { Exchanged(a, b) : a, b \in 1..KEYPAD_SIZE }

\* the fragments of the keypad test: VIRTUAL_PAD_RES with its keys shuffled
PadFixtures == { Fragment("ok", "challenge", Keys(perm)) : perm \in Shuffles }

\* fragments that do not show the 10 digits once each: a key missing, a
\* glyph that is no digit, a digit shown by two keys (and another by none)
DefectivePadFixtures ==
    { Fragment("ok", "challenge", SubSeq(Keys(Reversed), 1, KEYPAD_SIZE - 1)),
      Fragment("ok", "challenge", SubSeq(Keys(Straight), 2, KEYPAD_SIZE)),
      Fragment("ok", "challenge", [Keys(Straight) EXCEPT ![3].svg = UNKNOWN_SVG]),
      Fragment("ok", "challenge", [Keys(Reversed) EXCEPT ![10].svg = UNKNOWN_SVG]),
      Fragment("ok", "challenge", [Keys(Straight) EXCEPT ![3].svg = SVG_OF_DIGIT[8]]),
      Fragment("ok", "challenge", [Keys(Rotated(4)) EXCEPT ![1].svg = SVG_OF_DIGIT[1]]) }

\* (the virtual_pad functions the client calls are those of bourso/client.rs)
extract_challenge_token(frag) ==
    IF frag.challenge # "" THEN Ok(frag.challenge) ELSE Err(PANIC)

RECURSIVE extract_keys_from(_, _)
extract_keys_from(caps, keys) ==
    IF caps = <<>> THEN Ok(keys)
    ELSE IF get_number_for_svg(Head(caps).svg) = -1 THEN Err("Could not find number for svg")
    ELSE extract_keys_from(Tail(caps),
            [keys EXCEPT ![get_number_for_svg(Head(caps).svg) + 1] = Head(caps).key])

\* (mutation) the last button of the fragment is not read
extract_data_matrix_keys_LastSkipped(frag) ==
    extract_keys_from(SubSeq(frag.keys, 1, Len(frag.keys) - 1), Rep("", KEYPAD_SIZE))

extract_data_matrix_keys(frag) == extract_keys_from(frag.keys, Rep("", KEYPAD_SIZE))

\* characters of a password: 0..9 are the decimal digits, 10 any other character
NonDigit == 10
Passwords == { << 1, 2, 3, 6, 5, 4 >>, << 0, 9 >>, << 1, NonDigit, 2 >> }

\* the passwords given to the encoding alone: every string of digits and
\* other characters up to MaxPwLen, and the password of the test
Chars == 0..NonDigit
PadPasswords ==
    UNION { [1..n -> Chars] : n \in 0..MaxPwLen } \cup { << 1, 2, 3, 6, 5, 4 >> }

RECURSIVE password_to_keys_from(_, _, _)
password_to_keys_from(ids, pw, keys) ==
    IF pw = <<>> THEN Ok(keys)
    ELSE IF Head(pw) = NonDigit THEN Err("Invalid character in password")
    ELSE IF Head(pw) + 1 > Len(ids) THEN Err(PANIC)
    ELSE password_to_keys_from(ids, Tail(pw), Append(keys, ids[Head(pw) + 1]))

\* (mutation) the keys are pushed in front of those already there
password_to_virtual_pad_keys_Prepend(ids, pw) ==
    LET r == password_to_keys_from(ids, pw, <<>>) IN
      IF r.ok THEN Ok([i \in 1..Len(r.v) |-> r.v[Len(r.v) + 1 - i]]) ELSE r

password_to_virtual_pad_keys(ids, pw) == password_to_keys_from(ids, pw, <<>>)

\* the answer to the login form: status, and whether the body carries one of
\* the two invalid-credentials messages
FormResponse(io, status, invalid) == [io |-> io, status |-> status, invalid |-> invalid]
FormResponses ==
    { FormResponse("sendErr", 0, FALSE),
      FormResponse("bodyErr", 200, FALSE),
      FormResponse("ok", 302, FALSE),
      FormResponse("ok", 302, TRUE),
      FormResponse("ok", 200, TRUE),
      FormResponse("ok", 200, FALSE),
      FormResponse("ok", 401, FALSE) }

\* the landing page: the log-out link href="/se-deconnecter", the
\* "/securisation" hint, and its BRS_CONFIG blob
LandingPage(io, logout, securisation, cfg) ==
    [io |-> io, logout |-> logout, securisation |-> securisation, config |-> cfg]
NoPage == LandingPage("none", FALSE, FALSE, "missing")
LandingPages ==
    { LandingPage("sendErr", FALSE, FALSE, "missing") }
    \cup { LandingPage("ok", l, s, c) : l \in BOOLEAN, s \in BOOLEAN, c \in ConfigKinds }

NoReturn == [op |-> "none", r |-> Ok("()")]
Returned(op, r) == [op |-> op, r |-> r]

\* the front-end holds no challenge
NoHeld == [otp_id |-> "-", token_form |-> "-", mfa_type |-> "-"]

\* extract_data_matrix_keys has not been applied: no Result yet
NotDecoded == << >>

\* the locals of a call: the `res` of login's form POST, the locals of a
\* suspended request_mfa or submit_mfa; none before
NoFrame == [op |-> "none"]

\* a caller of the library may call at most MaxCalls operations; a
\* front-end calls what its own code calls
MayCall == front # "none" \/ calls < MaxCalls

\* the operation op is called with args: by anyone, or by the front-end
\* when op is the call its code has reached
Calling(op, args) ==
    /\ front # "none" => dpc = op
    /\ dpc' = IF front = "none" THEN dpc ELSE "await"
    /\ oplog' = IF front = "none" THEN oplog
                ELSE Append(oplog, [e |-> "call", op |-> op, v |-> args])
    /\ UNCHANGED << front, mfa_count, held >>

\* BoursoWebClient::new()
LInit ==
    /\ brs_mit_cookie = ""
    /\ token = ""
    /\ config = DefaultConfig
    /\ challenge_id = ""
    /\ virtual_pad_ids = <<>>
    /\ customer_id = ""
    /\ password = <<>>
    /\ cookie_store = {}
    /\ info_enabled \in BOOLEAN
    /\ lpc = "idle"
    /\ calls = 0
    /\ lrequests = <<>>
    /\ lret = NoReturn
    /\ page = NoPage
    /\ authenticated = FALSE
    /\ frame = NoFrame

\* the call returns r (a panic does not return: the client is gone)
Return(op, r) ==
    /\ lret' = Returned(op, r)
    /\ authenticated' = (authenticated \/ (op \in { "login", "submit_mfa" } /\ r.ok))
    /\ lpc' = IF ~r.ok /\ r.v = PANIC THEN "panicked" ELSE "idle"

Get(path, nextpc) ==
    /\ lrequests' = Append(lrequests, [method |-> "GET", path |-> path])
    /\ lpc' = nextpc

InitSessionCall ==
    /\ lpc = "idle"
    /\ MayCall
    /\ Calling("init_session", "()")
    /\ calls' = calls + 1
    /\ Get("/connexion/", "is_first")
    /\ UNCHANGED << session, info_enabled, lret, page, authenticated, frame >>
    /\ UNCHANGED << tvars, kvars >>

InitSessionFirstPage ==
    \E p \in LoginPages :
        /\ lpc = "is_first"
        /\ LET c == IF p.io = "ok" THEN extract_brs_mit_cookie(p) ELSE Err(TransportError) IN
             IF c.ok
             THEN /\ brs_mit_cookie' = c.v
                  /\ cookie_store' = cookie_store \cup { "brsDomainMigration", "__brs_mit" }
                  /\ Get("/connexion/", "is_second")
                  /\ UNCHANGED << lret, authenticated >>
             ELSE /\ Return("init_session", c)
                  /\ UNCHANGED << brs_mit_cookie, cookie_store, lrequests >>
        /\ UNCHANGED << token, config, challenge_id, virtual_pad_ids, customer_id, password,
                        info_enabled, calls, page, frame >>
        /\ UNCHANGED << tvars, kvars, mvars >>

InitSessionSecondPage ==
    \E p \in LoginPages :
        /\ lpc = "is_second"
        /\ LET t == IF p.io = "ok" THEN extract_token(p) ELSE Err(TransportError)
               c == extract_brs_config(p.config) IN
             IF ~t.ok
             THEN /\ Return("init_session", t)
                  /\ UNCHANGED << token, config, lrequests >>
             ELSE IF ~c.ok
             THEN /\ token' = t.v
                  /\ Return("init_session", c)
                  /\ UNCHANGED << config, lrequests >>
             ELSE /\ token' = t.v
                  /\ config' = c.v
                  /\ Get("/connexion/clavier-virtuel?_hinclude=1", "is_keypad")
                  /\ UNCHANGED << lret, authenticated >>
        /\ UNCHANGED << brs_mit_cookie, cookie_store, challenge_id, virtual_pad_ids,
                        customer_id, password, info_enabled, calls, page, frame >>
        /\ UNCHANGED << tvars, kvars, mvars >>

InitSessionKeypad ==
    \E f \in Fragments :
        /\ lpc = "is_keypad"
        /\ LET ch == IF f.io = "ok" THEN extract_challenge_token(f) ELSE Err(TransportError)
               ks == extract_data_matrix_keys(f) IN
             IF ~ch.ok
             THEN /\ Return("init_session", ch)
                  /\ UNCHANGED << challenge_id, virtual_pad_ids >>
             ELSE IF ~ks.ok
             THEN /\ challenge_id' = ch.v
                  /\ Return("init_session", ks)
                  /\ UNCHANGED virtual_pad_ids
             ELSE /\ challenge_id' = ch.v
                  /\ virtual_pad_ids' = ks.v
                  /\ Return("init_session", Ok("()"))
        /\ UNCHANGED << brs_mit_cookie, token, config, cookie_store, customer_id, password,
                        info_enabled, calls, lrequests, page, frame >>
        /\ UNCHANGED << tvars, kvars, mvars >>

\* login up to the POST of the form
LoginCall ==
    \E pw \in Passwords :
        /\ lpc = "idle"
        /\ MayCall
        /\ Calling("login", pw)
        /\ calls' = calls + 1
        /\ customer_id' = "12345678"
        /\ LET k == password_to_virtual_pad_keys(virtual_pad_ids, pw) IN
             IF k.ok
             THEN /\ password' = k.v
                  /\ lrequests' = Append(lrequests,
                        [method |-> "POST", path |-> "/connexion/saisie-mot-de-passe",
                         form |-> [password |-> k.v, matrixRandomChallenge |-> challenge_id,
                                   token |-> token, clientNumber |-> "12345678"]])
                  /\ lpc' = "login_form"
                  /\ UNCHANGED << lret, authenticated >>
             ELSE /\ Return("login", k)
                  /\ UNCHANGED << password, lrequests >>
        /\ page' = NoPage
        /\ frame' = NoFrame
        /\ UNCHANGED << brs_mit_cookie, token, config, challenge_id, virtual_pad_ids,
                        cookie_store, info_enabled >>
        /\ UNCHANGED << tvars, kvars >>

\* (mutation) any status other than 302 is reported as invalid credentials
login_form_result_NoBodyCheck(resp) ==
    IF resp.io = "sendErr" THEN Err(TransportError)
    ELSE IF resp.status # 302
         THEN IF resp.io = "bodyErr" THEN Err(TransportError)
              ELSE Err("InvalidCredentials")
    ELSE Ok("()")

\* `if res.status() != 302 { .. }`
login_form_result(resp) ==
    IF resp.io = "sendErr" THEN Err(TransportError)
    ELSE IF resp.status # 302
         THEN IF resp.io = "bodyErr" THEN Err(TransportError)
              ELSE IF resp.invalid THEN Err("InvalidCredentials")
              ELSE Err("Could not login to Bourso website")
    ELSE Ok("()")

LoginFormResponse ==
    \E resp \in FormResponses :
        /\ lpc = "login_form"
        /\ LET r == login_form_result(resp) IN
             IF r.ok
             THEN /\ Get("/", "login_landing")
                  /\ UNCHANGED << lret, authenticated >>
             ELSE /\ Return("login", r)
                  /\ UNCHANGED lrequests
        /\ frame' = [op |-> "login", res |-> resp]
        /\ UNCHANGED << session, info_enabled, calls, page >>
        /\ UNCHANGED << tvars, kvars, mvars >>

\* the classification of the landing page: what login returns for it
classify_landing(p, info) ==
    IF p.io # "ok" THEN Err(TransportError)
    ELSE IF p.logout
         THEN LET c == extract_brs_config(p.config) IN
                IF ~c.ok THEN c
                ELSE IF info /\ c.v.user_hash = None THEN Err(PANIC)
                ELSE Ok("()")
    ELSE IF p.securisation THEN Err("MfaRequired")
    ELSE Err("InvalidCredentials")

\* the Config the session holds after the classification
config_after_landing(p, cfg) ==
    IF p.io = "ok" /\ p.logout /\ extract_brs_config(p.config).ok
    THEN extract_brs_config(p.config).v
    ELSE cfg

LoginLanding ==
    \E p \in LandingPages :
        /\ lpc = "login_landing"
        /\ page' = p
        /\ config' = config_after_landing(p, config)
        /\ Return("login", classify_landing(p, info_enabled))
        /\ UNCHANGED << brs_mit_cookie, token, challenge_id, virtual_pad_ids, customer_id,
                        password, cookie_store, info_enabled, calls, lrequests, frame >>
        /\ UNCHANGED << tvars, kvars, mvars >>

LNext ==
    \/ InitSessionCall
    \/ InitSessionFirstPage
    \/ InitSessionSecondPage
    \/ InitSessionKeypad
    \/ LoginCall
    \/ LoginFormResponse
    \/ LoginLanding

\* ------------------------------------------------------------------------
\* Part 3: the MFA operations of the client, request_mfa and submit_mfa
\* (bourso_api/src/client/mod.rs)
\* ------------------------------------------------------------------------
\* enum MfaType and its path segments
MfaType == { "Email", "Sms", "WebToApp" }

api_path(t) == IF t = "WebToApp" THEN "challenge" ELSE "otp"

start_path(t) ==
    CASE t = "Email" -> "startemail"
      [] t = "Sms" -> "startsms"
      [] t = "WebToApp" -> "startwebtoapp"

check_path(t) ==
    CASE t = "Email" -> "checkemail"
      [] t = "Sms" -> "checksms"
      [] t = "WebToApp" -> "checkwebtoapp"

\* "{api_url}/_user_/_{user_hash}_/session/{api_path}/{start_path or check_path}/{otp_id}"
SessionUrl(hash, api, action, otp_id) ==
    [user_hash |-> hash, api |-> api, action |-> action, otp_id |-> otp_id]

\* the pages request_mfa fetches, in order; only the last one is read
RM_PATHS ==
    << "/securisation", "/x-domain-authentification/set-cookie", "/",
       "/securisation/authentification/",
       "/securisation/authentification/validation" >>

\* the verification page: the kind markers it contains, its BRS_CONFIG
\* blob, the otp id at the end of its start url (None: no start url), and
\* whether it holds the userContact entry and the form[_token] input
MfaPage(io, markers, cfg, start, contact, tok) ==
    [io |-> io, markers |-> markers, config |-> cfg, start |-> start,
     contact |-> contact, token |-> tok]

MfaPages ==
    { MfaPage("sendErr", {}, "missing", None, FALSE, FALSE),
      MfaPage("ok", { "brs-otp-webtoapp" }, "ok", "otp1", FALSE, TRUE),
      MfaPage("ok", { "brs-otp-webtoapp" }, "ok", "otp2", FALSE, TRUE),
      MfaPage("ok", { "brs-otp-sms" }, "ok", "otp2", TRUE, TRUE),
      MfaPage("ok", { "brs-otp-email" }, "ok", "otp1", TRUE, TRUE),
      MfaPage("ok", { "brs-otp-sms", "brs-otp-webtoapp" }, "ok", "otp1", TRUE, TRUE),
      MfaPage("ok", {}, "ok", "otp1", TRUE, TRUE),
      MfaPage("ok", { "brs-otp-webtoapp" }, "missing", "otp1", FALSE, TRUE),
      MfaPage("ok", { "brs-otp-webtoapp" }, "malformed", "otp1", FALSE, TRUE),
      MfaPage("ok", { "brs-otp-webtoapp" }, "nohash", "otp1", FALSE, TRUE),
      MfaPage("ok", { "brs-otp-webtoapp" }, "ok", None, FALSE, TRUE),
      MfaPage("ok", { "brs-otp-sms" }, "ok", "otp1", FALSE, TRUE),
      MfaPage("ok", { "brs-otp-webtoapp" }, "ok", "otp1", FALSE, FALSE) }

\* `let mfa_type = if res.contains("brs-otp-email") { .. } else if ..`
detect_mfa_type(markers) ==
    IF "brs-otp-email" \in markers THEN Ok("Email")
    ELSE IF "brs-otp-sms" \in markers THEN Ok("Sms")
    ELSE IF "brs-otp-webtoapp" \in markers THEN Ok("WebToApp")
    ELSE Err("Could not request MFA, MFA type not found")

extract_start_otp_url(res) ==
    IF res.start = None THEN Err("Could not extract start sms otp url") ELSE Ok(res.start)

extract_user_contact(res) == IF res.contact THEN Ok("contact") ELSE Err(PANIC)

\* an answer of the session API: status and JSON body, "true" and "false"
\* being bodies whose "success" is that boolean, "nosuccess" a JSON body
\* without a boolean "success", "notjson" a body that is not JSON
JsonResponse(io, status, body) == [io |-> io, status |-> status, body |-> body]
JsonResponses ==
    { JsonResponse("sendErr", 0, "notjson"),
      JsonResponse("bodyErr", 200, "notjson"),
      JsonResponse("ok", 200, "true"),
      JsonResponse("ok", 200, "false"),
      JsonResponse("ok", 200, "nosuccess"),
      JsonResponse("ok", 200, "notjson"),
      JsonResponse("ok", 403, "true") }

\* (mutation) success=false is reported as MfaRequired
success_of_Required(resp, status_error, response_error) ==
    IF resp.io = "sendErr" THEN Err(TransportError)
    ELSE IF resp.status # 200 THEN Err(status_error)
    ELSE IF resp.io = "bodyErr" THEN Err(TransportError)
    ELSE IF resp.body = "notjson" THEN Err("serde_json::Error")
    ELSE IF resp.body = "nosuccess" THEN Err(PANIC)
    ELSE IF resp.body = "false" THEN Err("MfaRequired")
    ELSE Ok(TRUE)

\* what request_mfa (what = "request MFA") and submit_mfa (what = "submit
\* MFA code") make of the answer to their API call: Ok(TRUE) when success
success_of(resp, status_error, response_error) ==
    IF resp.io = "sendErr" THEN Err(TransportError)
    ELSE IF resp.status # 200 THEN Err(status_error)
    ELSE IF resp.io = "bodyErr" THEN Err(TransportError)
    ELSE IF resp.body = "notjson" THEN Err("serde_json::Error")
    ELSE IF resp.body = "nosuccess" THEN Err(PANIC)
    ELSE IF resp.body = "false" THEN Err(response_error)
    ELSE Ok(TRUE)

\* what request_mfa returns: (otp_id, token_form, mfa_type)
Challenge(otp_id, token_form, mfa_type) ==
    [otp_id |-> otp_id, token_form |-> token_form, mfa_type |-> mfa_type]

\* request_mfa: the call and its first GET
RequestMfaCall ==
    /\ lpc = "idle"
    /\ MayCall
    /\ Calling("request_mfa", "()")
    /\ calls' = calls + 1
    /\ Get(RM_PATHS[1], "rm_get")
    /\ frame' = [op |-> "request_mfa", step |-> 1]
    /\ UNCHANGED << session, info_enabled, lret, authenticated, page >>
    /\ UNCHANGED << tvars, kvars >>

\* the answers to the first four GETs: `let _ = ..send().await?;`
RequestMfaPreliminary ==
    \E io \in { "ok", "sendErr" } :
        /\ lpc = "rm_get"
        /\ frame.step < Len(RM_PATHS)
        /\ IF io = "ok"
           THEN /\ Get(RM_PATHS[frame.step + 1], "rm_get")
                /\ frame' = [frame EXCEPT !.step = frame.step + 1]
                /\ UNCHANGED << lret, authenticated >>
           ELSE /\ Return("request_mfa", Err(TransportError))
                /\ UNCHANGED << lrequests, frame >>
        /\ UNCHANGED << session, info_enabled, calls, page >>
        /\ UNCHANGED << tvars, kvars, mvars >>

\* (mutation) the email and SMS kinds are rejected as unsupported
request_mfa_page_WebToAppOnly(res) ==
    LET t == detect_mfa_type(res.markers)
        c == extract_brs_config(res.config)
        u == extract_start_otp_url(res)
        tok == extract_token(res) IN
      IF res.io # "ok" THEN Err(TransportError)
      ELSE IF ~t.ok THEN t
      ELSE IF t.v # "WebToApp" THEN Err("Could not request MFA, MFA type not supported")
      ELSE IF ~c.ok THEN c
      ELSE IF ~u.ok THEN u
      ELSE IF ~tok.ok THEN tok
      ELSE IF c.v.user_hash = None THEN Err(PANIC)
      ELSE Ok(Challenge(u.v, tok.v, t.v))

\* what request_mfa makes of the verification page, up to the start
\* request: Ok(the challenge) when the start request is to be sent
request_mfa_page(res) ==
    LET t == detect_mfa_type(res.markers)
        c == extract_brs_config(res.config)
        u == extract_start_otp_url(res)
        contact == IF t.v = "WebToApp" THEN Ok("your phone app") ELSE extract_user_contact(res)
        tok == extract_token(res) IN
      IF res.io # "ok" THEN Err(TransportError)
      ELSE IF ~t.ok THEN t
      ELSE IF ~c.ok THEN c
      ELSE IF ~u.ok THEN u
      ELSE IF ~contact.ok THEN contact
      ELSE IF ~tok.ok THEN tok
      ELSE IF c.v.user_hash = None THEN Err(PANIC)
      ELSE Ok(Challenge(u.v, tok.v, t.v))

\* `self.config = extract_brs_config(&res)?;` is reached and succeeds
request_mfa_sets_config(res) ==
    res.io = "ok" /\ detect_mfa_type(res.markers).ok /\ extract_brs_config(res.config).ok

RequestMfaPage ==
    \E res \in MfaPages :
        /\ lpc = "rm_get"
        /\ frame.step = Len(RM_PATHS)
        /\ config' = IF request_mfa_sets_config(res)
                     THEN extract_brs_config(res.config).v ELSE config
        /\ LET r == request_mfa_page(res) IN
             IF r.ok
             THEN /\ lrequests' = Append(lrequests,
                        [method |-> "POST",
                         path |-> SessionUrl(config'.user_hash, api_path(r.v.mfa_type),
                                             start_path(r.v.mfa_type), r.v.otp_id),
                         body |-> "{}"])
                  /\ lpc' = "rm_start"
                  /\ frame' = [op |-> "request_mfa", step |-> Len(RM_PATHS) + 1,
                               res |-> res, challenge |-> r.v]
                  /\ UNCHANGED << lret, authenticated >>
             ELSE IF request_mfa_sets_config(res) /\ ~extract_start_otp_url(res).ok
             THEN /\ Get("/securisation/validation", "rm_fallback")
                  /\ frame' = [op |-> "request_mfa", step |-> Len(RM_PATHS), res |-> res]
                  /\ UNCHANGED << lret, authenticated >>
             ELSE /\ Return("request_mfa", r)
                  /\ frame' = [op |-> "request_mfa", step |-> Len(RM_PATHS), res |-> res]
                  /\ UNCHANGED lrequests
        /\ UNCHANGED << brs_mit_cookie, token, challenge_id, virtual_pad_ids, customer_id,
                        password, cookie_store, info_enabled, calls, page >>
        /\ UNCHANGED << tvars, kvars, mvars >>

\* no start url on the page: /securisation/validation is fetched and printed
RequestMfaFallback ==
    \E io \in { "ok", "sendErr" } :
        /\ lpc = "rm_fallback"
        /\ Return("request_mfa",
                  IF io = "ok" THEN Err("Could not request MFA, start sms otp url not found")
                  ELSE Err(TransportError))
        /\ UNCHANGED << session, info_enabled, calls, lrequests, page, frame >>
        /\ UNCHANGED << tvars, kvars, mvars >>

request_mfa_result(resp, challenge) ==
    LET s == success_of(resp, "Could not request MFA, status code",
                        "Could not request MFA, response") IN
      IF s.ok THEN Ok(challenge) ELSE s

RequestMfaStartResponse ==
    \E resp \in JsonResponses :
        /\ lpc = "rm_start"
        /\ Return("request_mfa", request_mfa_result(resp, frame.challenge))
        /\ UNCHANGED << session, info_enabled, calls, lrequests, page, frame >>
        /\ UNCHANGED << tvars, kvars, mvars >>

\* the arguments of submit_mfa
SubmitArgs(mfa_type, otp_id, code, token_form) ==
    [mfa_type |-> mfa_type, otp_id |-> otp_id, code |-> code, token_form |-> token_form]

\* the code the credentials source gives
MFA_CODE == "123456"

\* what a caller of the library may pass
AnySubmitArgs ==
    { SubmitArgs("WebToApp", "otp1", MFA_CODE, "token"),
      SubmitArgs("Sms", "otp2", MFA_CODE, "token") }

\* (mutation) the front-end passes again the first challenge it was given
FrontSubmitArgs_First ==
    LET issued == SelectSeq(oplog, LAMBDA x : x.e = "ret" /\ x.op = "request_mfa" /\ x.v.ok)
        first == IF issued = <<>> THEN held ELSE issued[1].v.v IN
      SubmitArgs(first.mfa_type, first.otp_id, MFA_CODE, first.token_form)

\* what the front-end passes: `submit_mfa(mfa_type, otp_id, code, token_form)`
FrontSubmitArgs == SubmitArgs(held.mfa_type, held.otp_id, MFA_CODE, held.token_form)

\* submit_mfa: the call and its check request
SubmitMfaCall ==
    \E args \in (IF front = "none" THEN AnySubmitArgs ELSE { FrontSubmitArgs }) :
        /\ lpc = "idle"
        /\ MayCall
        /\ Calling("submit_mfa", args)
        /\ calls' = calls + 1
        /\ page' = NoPage
        /\ frame' = [op |-> "submit_mfa", args |-> args]
        /\ IF config.user_hash = None
           THEN /\ Return("submit_mfa", Err(PANIC))
                /\ UNCHANGED lrequests
           ELSE /\ lrequests' = Append(lrequests,
                      [method |-> "POST",
                       path |-> SessionUrl(config.user_hash, api_path(args.mfa_type),
                                           check_path(args.mfa_type), args.otp_id),
                       body |-> [token |-> args.code]])
                /\ lpc' = "sm_check"
                /\ UNCHANGED << lret, authenticated >>
        /\ UNCHANGED << session, info_enabled >>
        /\ UNCHANGED << tvars, kvars >>

\* the answer to the check request; on success the form with the token is posted
SubmitMfaCheckResponse ==
    \E resp \in JsonResponses :
        /\ lpc = "sm_check"
        /\ LET s == success_of(resp, "Could not submit MFA code, status code",
                               "Could not submit MFA, response") IN
             IF s.ok
             THEN /\ lrequests' = Append(lrequests,
                        [method |-> "POST",
                         path |-> "/securisation/authentification/validation",
                         form |-> [token |-> frame.args.token_form]])
                  /\ lpc' = "sm_validation"
                  /\ UNCHANGED << lret, authenticated >>
             ELSE /\ Return("submit_mfa", s)
                  /\ UNCHANGED lrequests
        /\ UNCHANGED << session, info_enabled, calls, page, frame >>
        /\ UNCHANGED << tvars, kvars, mvars >>

\* the answer to the validation form: its status is only printed
SubmitMfaValidationResponse ==
    \E resp \in { [io |-> "sendErr", status |-> 0], [io |-> "ok", status |-> 302],
                  [io |-> "ok", status |-> 200] } :
        /\ lpc = "sm_validation"
        /\ IF resp.io = "ok"
           THEN /\ Get("/", "sm_landing")
                /\ UNCHANGED << lret, authenticated >>
           ELSE /\ Return("submit_mfa", Err(TransportError))
                /\ UNCHANGED lrequests
        /\ UNCHANGED << session, info_enabled, calls, page, frame >>
        /\ UNCHANGED << tvars, kvars, mvars >>

\* (mutation) a page with neither marker is left unreported
classify_mfa_landing_Lenient(p, info) ==
    IF p.io # "ok" THEN Err(TransportError)
    ELSE IF p.logout
         THEN LET c == extract_brs_config(p.config) IN
                IF ~c.ok THEN c
                ELSE IF info /\ c.v.user_hash = None THEN Err(PANIC)
                ELSE Ok("()")
    ELSE IF p.securisation THEN Err("MfaRequired")
    ELSE Ok("()")

\* the classification of the landing page by submit_mfa
classify_mfa_landing(p, info) ==
    IF p.io # "ok" THEN Err(TransportError)
    ELSE IF p.logout
         THEN LET c == extract_brs_config(p.config) IN
                IF ~c.ok THEN c
                ELSE IF info /\ c.v.user_hash = None THEN Err(PANIC)
                ELSE Ok("()")
    ELSE IF p.securisation THEN Err("MfaRequired")
    ELSE Err("Could not submit MFA, response")

SubmitMfaLanding ==
    \E p \in LandingPages :
        /\ lpc = "sm_landing"
        /\ page' = p
        /\ config' = config_after_landing(p, config)
        /\ Return("submit_mfa", classify_mfa_landing(p, info_enabled))
        /\ UNCHANGED << brs_mit_cookie, token, challenge_id, virtual_pad_ids, customer_id,
                        password, cookie_store, info_enabled, calls, lrequests, frame >>
        /\ UNCHANGED << tvars, kvars, mvars >>

MNext ==
    \/ RequestMfaCall
    \/ RequestMfaPreliminary
    \/ RequestMfaPage
    \/ RequestMfaFallback
    \/ RequestMfaStartResponse
    \/ SubmitMfaCall
    \/ SubmitMfaCheckResponse
    \/ SubmitMfaValidationResponse
    \/ SubmitMfaLanding

\* ------------------------------------------------------------------------
\* Part 4: the operations on the accounts of the user: get_accounts
\* (client/account.rs), get_trading_summary (client/trade/mod.rs) and order
\* (client/trade/order.rs)
\* ------------------------------------------------------------------------
\* the characters of a balance text: the digits, the space, the no-break
\* space U+00A0, the narrow no-break space U+202F, the comma, the minus
\* sign U+2212 and the hyphen-minus
DigitChars == << "0", "1", "2", "3", "4", "5", "6", "7", "8", "9" >>
IsDigitChar(c) == \E i \in 1..Len(DigitChars) : DigitChars[i] = c
DigitValue(c) == (CHOOSE i \in 1..Len(DigitChars) : DigitChars[i] = c) - 1
SPACE == " "
NBSP == "U+00A0"
NNBSP == "U+202F"
COMMA == ","
MINUS_SIGN == "U+2212"
HYPHEN == "-"
WhiteSpace == { SPACE, NBSP, NNBSP }

\* a balance shown on the page: its sign ("" for none), the characters
\* that show the sign, the groups of digits of its whole part, the
\* separator between the groups, and its decimal digits after a comma
\* (comma FALSE: no comma and no decimals)
Shown(neg, lead, groups, sep, comma, dec) ==
    [neg |-> neg, lead |-> lead, groups |-> groups, sep |-> sep, comma |-> comma, dec |-> dec]

RECURSIVE Joined(_, _)
Joined(groups, sep) ==
    IF Len(groups) = 1 THEN groups[1]
    ELSE groups[1] \o sep \o Joined(Tail(groups), sep)

\* the text of the balance, as ACCOUNT_PATTERN captures it
BalanceText(b) ==
    b.lead \o Joined(b.groups, << b.sep >>) \o (IF b.comma THEN << COMMA >> \o b.dec ELSE <<>>)

\* `(?P<balance>[\d\s−-]+,?\d{0,2})`: the text is one the pattern captures
BalanceMatches(s) ==
    \E k \in 1..Len(s) :
        /\ \A i \in 1..k : IsDigitChar(s[i]) \/ s[i] \in WhiteSpace \cup { MINUS_SIGN, HYPHEN }
        /\ LET rest == SubSeq(s, k + 1, Len(s))
               digits == IF rest # <<>> /\ rest[1] = COMMA THEN Tail(rest) ELSE rest IN
             /\ Len(digits) <= 2
             /\ \A i \in 1..Len(digits) : IsDigitChar(digits[i])

\* str::trim
RECURSIVE TrimStart(_)
TrimStart(s) == IF s # <<>> /\ s[1] \in WhiteSpace THEN TrimStart(Tail(s)) ELSE s
RECURSIVE TrimEnd(_)
TrimEnd(s) ==
    IF s # <<>> /\ s[Len(s)] \in WhiteSpace THEN TrimEnd(SubSeq(s, 1, Len(s) - 1)) ELSE s
Trim(s) == TrimEnd(TrimStart(s))

\* str::replace(c, "") and str::replace(c, d)
Remove(s, c) == SelectSeq(s, LAMBDA x : x # c)
Replace(s, c, d) == [i \in 1..Len(s) |-> IF s[i] = c THEN d ELSE s[i]]

\* the number a string of decimal digits denotes
RECURSIVE DecimalValue(_)
DecimalValue(s) ==
    IF s = <<>> THEN 0 ELSE 10 * DecimalValue(SubSeq(s, 1, Len(s) - 1)) + DigitValue(s[Len(s)])

\* str::parse::<isize>: an optional sign and at least one digit, only digits
parse_isize(s) ==
    LET neg == s # <<>> /\ s[1] = HYPHEN
        digits == IF neg THEN Tail(s) ELSE s IN
      IF digits = <<>> \/ \E i \in 1..Len(digits) : ~IsDigitChar(digits[i])
      THEN Err("ParseIntError")
      ELSE Ok(IF neg THEN 0 - DecimalValue(digits) ELSE DecimalValue(digits))

\* `.trim().replace(" ", "").replace(",", "").replace("\u{a0}", "")
\*  .replace("−", "-").parse::<isize>().unwrap()`
parse_balance(s) ==
    LET r == parse_isize(Replace(Remove(Remove(Remove(Trim(s), SPACE), COMMA), NBSP),
                                 MINUS_SIGN, HYPHEN)) IN
      IF r.ok THEN r ELSE Err(PANIC)

\* the balances shown to the parsing alone
D(s) == [i \in 1..Len(s) |-> DigitChars[s[i] + 1]]
ShownLeads == { << "", <<>> >>, << MINUS_SIGN, << MINUS_SIGN, SPACE >> >>,
                << MINUS_SIGN, << MINUS_SIGN >> >>, << HYPHEN, << HYPHEN >> >> }
ShownGroups ==
    { << << D(<< 0 >>) >>, SPACE >>,
      << << D(<< 5 >>) >>, SPACE >>,
      << << D(<< 5, 0, 0 >>) >>, SPACE >>,
      << << D(<< 2, 0 >>), D(<< 8, 1, 0 >>) >>, SPACE >>,
      << << D(<< 9, 4 >>), D(<< 9, 5, 9 >>) >>, NBSP >>,
      << << D(<< 1 >>), D(<< 5, 9, 9 >>) >>, NNBSP >>,
      << << D(<< 2, 1, 3, 1, 0 >>) >>, SPACE >> }
ShownDecimals ==
    { << FALSE, <<>> >>, << TRUE, <<>> >>, << TRUE, D(<< 4 >>) >>, << TRUE, D(<< 5, 0 >>) >>,
      << TRUE, D(<< 8, 2 >>) >>, << TRUE, D(<< 0, 5 >>) >>, << TRUE, D(<< 9, 0 >>) >> }
ShownBalances ==
    { Shown(l[1], l[2], g[1], g[2], d[1], d[2]) :
          l \in ShownLeads, g \in ShownGroups, d \in ShownDecimals }

\* enum AccountKind
AccountKind == { "Banking", "Savings", "Trading", "Loans" }

\* the accounts an operation may be given
AnyAccounts == Accounts \cup { [id |-> "acc3", kind |-> "Trading"] }

\* an entry of the accounts page (a match of ACCOUNT_PATTERN): the id of
\* the account and its balance as shown
Entry(id, shown) == [id |-> id, balance |-> shown]
Euros(groups, dec) == Shown("", <<>>, groups, SPACE, TRUE, D(dec))

\* the sections of ACCOUNTS_RES, the page of test_extract_accounts
ListedSection(kind) ==
    CASE kind = "Savings" ->
           << Entry("acc2", Euros(<< D(<< 1, 1 >>), D(<< 0, 1, 0 >>) >>, << 0, 0 >>)),
              Entry("acc4", Euros(<< D(<< 1 >>), D(<< 5, 9, 9 >>) >>, << 7, 2 >>)) >>
      [] kind = "Banking" ->
           << Entry("acc1", Euros(<< D(<< 2, 0 >>), D(<< 8, 1, 0 >>) >>, << 5, 0 >>)),
              Entry("acc5", Euros(<< D(<< 5, 0, 0 >>) >>, << 4, 0 >>)) >>
      [] kind = "Trading" ->
           << Entry("acc3", Euros(<< D(<< 1, 4 >>), D(<< 0, 8, 8 >>) >>, << 8, 9 >>)) >>
      [] kind = "Loans" ->
           << Entry("acc6", Shown(MINUS_SIGN, << MINUS_SIGN, SPACE >>,
                                  << D(<< 9, 4 >>), D(<< 9, 5, 9 >>) >>, SPACE, TRUE,
                                  D(<< 8, 2 >>))) >>

\* the accounts page: for each kind whose section (data-summary-..) it
\* has, the entries of the section
AccountsPage(io, sections) == [io |-> io, sections |-> sections]
Listing(kinds) == [k \in kinds |-> ListedSection(k)]
NoAccountsPage == AccountsPage("none", Listing({}))
AccountsPages ==
    { AccountsPage("sendErr", Listing({})),
      AccountsPage("ok", Listing({})),
      AccountsPage("ok", Listing({ "Banking", "Trading" })),
      AccountsPage("ok", Listing(AccountKind)),
      AccountsPage("ok", [Listing({ "Banking", "Savings" }) EXCEPT
                             !["Savings"] = << Entry("acc2", Shown("", <<>>,
                                 << D(<< 1 >>), D(<< 5, 9, 9 >>) >>, NNBSP, TRUE, D(<< 7, 2 >>))) >>]),
      AccountsPage("ok", [k \in { "Trading" } |-> <<>>]) }

\* the Account of an entry: `Account { id, name, balance, bank_name, kind }`
AccountOf(entry, kind) ==
    [id |-> entry.id, kind |-> kind, balance |-> parse_balance(BalanceText(entry.balance)).v]

\* extract_accounts: the section of the kind, then its entries
extract_accounts(res, kind) ==
    IF kind \notin DOMAIN res.sections
    THEN Err("Failed to extract accounts from the response")
    ELSE LET entries == res.sections[kind] IN
           IF \E i \in 1..Len(entries) : ~parse_balance(BalanceText(entries[i].balance)).ok
           THEN Err(PANIC)
           ELSE Ok([i \in 1..Len(entries) |-> AccountOf(entries[i], kind)])

\* `.unwrap_or(Vec::new())`
unwrap_or_empty(r) == IF r.ok THEN r.v ELSE <<>>

\* what get_accounts returns for a page
get_accounts_result(kind, res) ==
    IF res.io # "ok" THEN Err(TransportError)
    ELSE IF kind # None THEN extract_accounts(res, kind)
    ELSE IF \E k \in AccountKind :
                ~extract_accounts(res, k).ok /\ extract_accounts(res, k).v = PANIC
         THEN Err(PANIC)
    ELSE Ok(unwrap_or_empty(extract_accounts(res, "Savings"))
              \o unwrap_or_empty(extract_accounts(res, "Banking"))
              \o unwrap_or_empty(extract_accounts(res, "Trading"))
              \o unwrap_or_empty(extract_accounts(res, "Loans")))

GetAccountsCallOf(kinds) ==
    \E kind \in kinds :
        /\ lpc = "idle"
        /\ MayCall
        /\ Calling("get_accounts", kind)
        /\ calls' = calls + 1
        /\ Get("/dashboard/liste-comptes", "ga_page")
        /\ frame' = [op |-> "get_accounts", kind |-> kind, res |-> NoAccountsPage]
        /\ UNCHANGED << session, info_enabled, lret, authenticated, page >>
        /\ UNCHANGED << tvars, kvars >>

\* get_accounts called for all kinds, or for one
GetAccountsCall == GetAccountsCallOf({ None, "Trading", "Loans" })

GetAccountsPage ==
    \E res \in AccountsPages :
        /\ lpc = "ga_page"
        /\ Return("get_accounts", get_accounts_result(frame.kind, res))
        /\ frame' = [frame EXCEPT !.res = res]
        /\ UNCHANGED << session, info_enabled, calls, lrequests, page >>
        /\ UNCHANGED << tvars, kvars, mvars >>

get_trading_base_url_Unchecked(cfg) ==
    Ok([user_hash |-> cfg.user_hash, base |-> "trading"])

\* "{api_url}/_user_/_{user_hash}_/trading"
get_trading_base_url(cfg) ==
    IF cfg.user_hash = None THEN Err("User hash is not set")
    ELSE Ok([user_hash |-> cfg.user_hash, base |-> "trading"])

get_trading_summary_url(cfg, account) ==
    IF account.kind # "Trading" THEN Err("Account is not a trading account")
    ELSE IF ~get_trading_base_url(cfg).ok THEN get_trading_base_url(cfg)
    ELSE Ok([user_hash |-> cfg.user_hash, path |-> "accounts/summary", account |-> account.id])

get_order_url(cfg, step, account) ==
    IF ~get_trading_base_url(cfg).ok THEN get_trading_base_url(cfg)
    ELSE Ok([user_hash |-> cfg.user_hash, path |-> step, account |-> account])

\* an answer of the trading API: status, and whether the body is the JSON
\* the operation expects
TradeResponse(io, status, parses) == [io |-> io, status |-> status, parses |-> parses]
TradeResponses ==
    { TradeResponse("sendErr", 0, FALSE),
      TradeResponse("bodyErr", 200, FALSE),
      TradeResponse("ok", 200, TRUE),
      TradeResponse("ok", 201, TRUE),
      TradeResponse("ok", 200, FALSE),
      TradeResponse("ok", 500, FALSE) }

\* (mutation) any status of success is taken
trade_result_AnySuccess(resp, expected, what) ==
    IF resp.io # "ok" THEN Err(TransportError)
    ELSE IF resp.status \notin { 200, 201 } THEN Err("Failed to get " \o what \o " response")
    ELSE IF ~resp.parses THEN Err("Failed to parse " \o what \o " response")
    ELSE Ok(what)

\* the Result of reading an answer that must have the status `expected`
trade_result(resp, expected, what) ==
    IF resp.io # "ok" THEN Err(TransportError)
    ELSE IF resp.status # expected THEN Err("Failed to get " \o what \o " response")
    ELSE IF ~resp.parses THEN Err("Failed to parse " \o what \o " response")
    ELSE Ok(what)

GetTradingSummaryCall ==
    \E account \in AnyAccounts :
        /\ lpc = "idle"
        /\ MayCall
        /\ Calling("get_trading_summary", account.id)
        /\ calls' = calls + 1
        /\ frame' = [op |-> "get_trading_summary", account |-> account]
        /\ LET url == get_trading_summary_url(config, account) IN
             IF url.ok
             THEN /\ lrequests' = Append(lrequests, [method |-> "GET", path |-> url.v])
                  /\ lpc' = "ts_response"
                  /\ UNCHANGED << lret, authenticated >>
             ELSE /\ Return("get_trading_summary", url)
                  /\ UNCHANGED lrequests
        /\ UNCHANGED << session, info_enabled, page >>
        /\ UNCHANGED << tvars, kvars >>

GetTradingSummaryResponse ==
    \E resp \in TradeResponses :
        /\ lpc = "ts_response"
        /\ Return("get_trading_summary", trade_result(resp, 200, "trading summary"))
        /\ UNCHANGED << session, info_enabled, calls, lrequests, page, frame >>
        /\ UNCHANGED << tvars, kvars, mvars >>

\* Option values of the order data: Option::None and Some(v)
NONE == << >>
Some(v) == << v >>

\* enum OrderSide, enum OrderKind (the two kinds the prices depend on)
OrderSide == { "Buy", "Sell" }
OrderKind == { "Limit", "Market" }

\* struct OrderData, the fields order() reads or writes
OrderData(type, side, quantity, expiration, limit, quoted, validity) ==
    [order_type |-> type, order_side |-> side, order_quantity |-> quantity,
     order_expiration_date |-> expiration, order_price_limit |-> limit,
     order_amount |-> quoted, resource_id |-> NONE, order_validity |-> validity]

\* OrderData::default()
DefaultOrderData == OrderData("Limit", NONE, NONE, NONE, NONE, NONE, NONE)

\* the date chrono::Utc::now() formats, and the dates of the fixtures
TODAY == "2026-11-02"
VALIDITY == "2026-12-31"
EXPIRATION == "2027-01-29"

\* the order data a caller passes: none, the default, and data that sets
\* the fields order() would fill
GivenOrderData ==
    { DefaultOrderData,
      OrderData("Limit", Some("Sell"), Some(7), Some(EXPIRATION), Some(12), Some(11), NONE),
      OrderData("Limit", NONE, NONE, NONE, NONE, Some(11), NONE),
      OrderData("Market", NONE, Some(7), NONE, NONE, NONE, NONE) }
OrderDataArgs == { NONE } \cup { Some(d) : d \in GivenOrderData }

\* the quantities of the calls
Quantities == { 1, 2 }

\* struct OrderPrepareResponse, the fields order() reads; the bodies the
\* prepare step answers with: a prefill that leaves side and quantity
\* open, and one that sets them
OrderPrepared(resource_id, prefill, last_price) ==
    [resource_id |-> resource_id, prefill_order_data |-> prefill,
     symbol |-> [last_price |-> last_price]]
OrderPrepareBodies ==
    { OrderPrepared("res1", OrderData("Limit", NONE, NONE, NONE, NONE, NONE, Some(VALIDITY)), 10),
      OrderPrepared("res2", OrderData("Limit", Some("Buy"), Some(100), NONE, NONE, NONE, Some(VALIDITY)), 10) }

\* the order data order() sends to the check step
order_data_to_check(side, quantity, order_data, prepared) ==
    LET given == IF order_data # NONE THEN order_data[1] ELSE prepared.prefill_order_data
        limit == IF given.order_price_limit = NONE /\ given.order_type = "Limit"
                 THEN IF given.order_amount # NONE THEN given.order_amount
                      ELSE Some(prepared.symbol.last_price)
                 ELSE given.order_price_limit
        expiration == IF given.order_expiration_date = NONE
                      THEN prepared.prefill_order_data.order_validity
                      ELSE Some(TODAY) IN
      [given EXCEPT !.order_quantity = IF @ = NONE THEN Some(quantity) ELSE @,
                    !.order_price_limit = limit,
                    !.order_side = IF @ = NONE THEN Some(side) ELSE @,
                    !.order_expiration_date = expiration,
                    !.resource_id = Some(prepared.resource_id)]

\* order: the account check and the prepare request
OrderCallOf(accounts, sides, quantities, datas) ==
    \E account \in accounts, side \in sides, quantity \in quantities, order_data \in datas :
        /\ lpc = "idle"
        /\ MayCall
        /\ Calling("order", account.id)
        /\ calls' = calls + 1
        /\ frame' = [op |-> "order", account |-> account, side |-> side,
                     quantity |-> quantity, order_data |-> order_data,
                     response |-> NONE, data |-> NONE, answer |-> NONE]
        /\ LET url == IF account.kind # "Trading"
                      THEN Err("Account is not a trading account")
                      ELSE get_order_url(config, "order/prepare", account.id) IN
             IF url.ok
             THEN /\ lrequests' = Append(lrequests, [method |-> "GET", path |-> url.v])
                  /\ lpc' = "or_prepare"
                  /\ UNCHANGED << lret, authenticated >>
             ELSE /\ Return("order", url)
                  /\ UNCHANGED lrequests
        /\ UNCHANGED << session, info_enabled, page >>
        /\ UNCHANGED << tvars, kvars >>

\* order called with the arguments the front-ends pass
OrderCall == OrderCallOf(AnyAccounts, { "Buy" }, { 1 }, { NONE })

\* the answer to prepare (kept in `response`, its status in `status_code`);
\* then the check request
OrderPrepareResponse ==
    \E resp \in TradeResponses, body \in OrderPrepareBodies :
        /\ lpc = "or_prepare"
        /\ LET r == trade_result(resp, 200, "order prepare")
               url == get_order_url(config, "ordersimple/check", "-")
               data == order_data_to_check(frame.side, frame.quantity, frame.order_data, body) IN
             IF r.ok /\ url.ok
             THEN /\ lrequests' = Append(lrequests, [method |-> "POST", path |-> url.v, body |-> data])
                  /\ lpc' = "or_check"
                  /\ frame' = [frame EXCEPT !.response = Some(body), !.data = Some(data),
                                            !.answer = Some(resp)]
                  /\ UNCHANGED << lret, authenticated >>
             ELSE /\ Return("order", IF r.ok THEN url ELSE r)
                  /\ frame' = [frame EXCEPT !.answer = Some(resp)]
                  /\ UNCHANGED lrequests
        /\ UNCHANGED << session, info_enabled, calls, page >>
        /\ UNCHANGED << tvars, kvars, mvars >>

\* the answer to check; then the confirm request
OrderCheckResponse ==
    \E resp \in TradeResponses :
        /\ lpc = "or_check"
        /\ LET r == trade_result(resp, 200, "order check")
               url == get_order_url(config, "ordersimple/confirm", "-") IN
             IF r.ok /\ url.ok
             THEN /\ lrequests' = Append(lrequests, [method |-> "POST", path |-> url.v,
                                                     body |-> [resource_id |-> frame.data[1].resource_id[1]]])
                  /\ lpc' = "or_confirm"
                  /\ UNCHANGED << lret, authenticated >>
             ELSE /\ Return("order", IF r.ok THEN url ELSE r)
                  /\ UNCHANGED lrequests
        /\ frame' = [frame EXCEPT !.answer = Some(resp)]
        /\ UNCHANGED << session, info_enabled, calls, page >>
        /\ UNCHANGED << tvars, kvars, mvars >>

\* the answer to confirm
OrderConfirmResponse ==
    \E resp \in TradeResponses :
        /\ lpc = "or_confirm"
        /\ LET r == trade_result(resp, 201, "order confirm") IN
             Return("order", IF r.ok
                             THEN Ok([order_id |-> "order1",
                                      order_price_limit |-> frame.data[1].order_price_limit])
                             ELSE r)
        /\ frame' = [frame EXCEPT !.answer = Some(resp)]
        /\ UNCHANGED << session, info_enabled, calls, lrequests, page >>
        /\ UNCHANGED << tvars, kvars, mvars >>

ANext ==
    \/ GetAccountsCall
    \/ GetAccountsPage
    \/ GetTradingSummaryCall
    \/ GetTradingSummaryResponse
    \/ OrderCall
    \/ OrderPrepareResponse
    \/ OrderCheckResponse
    \/ OrderConfirmResponse

\* ------------------------------------------------------------------------
\* Part 5: the front-ends that log a user in: parse_matches (lib.rs) and
\* AuthService::login with handle_mfa (services/auth.rs). Both call
\* init_session and login, and on MfaRequired loop over request_mfa and
\* submit_mfa, counting the MfaRequired outcomes of submit_mfa in mfa_count.
\* ------------------------------------------------------------------------
\* `if mfa_count == 2`
MFA_THRESHOLD == 2

\* the front-end sees the last call return r
Observed(op) ==
    /\ front # "none"
    /\ dpc = "await"
    /\ lpc = "idle"
    /\ lret.op = op
    /\ oplog # <<>>
    /\ Last(oplog).e = "call"
    /\ Last(oplog).op = op

Outcome(op) == [e |-> "ret", op |-> op, v |-> lret.r]

\* (mutation) the error of init_session is dropped
FrontAfterInitSession_Ignored ==
    /\ Observed("init_session")
    /\ oplog' = Append(oplog, Outcome("init_session"))
    /\ dpc' = "login"
    /\ UNCHANGED << front, mfa_count, held >>
    /\ UNCHANGED << tvars, lvars, kvars >>

\* `client.init_session().await?`
FrontAfterInitSession ==
    /\ Observed("init_session")
    /\ oplog' = Append(oplog, Outcome("init_session"))
    /\ dpc' = IF lret.r.ok THEN "login" ELSE "failed"
    /\ UNCHANGED << front, mfa_count, held >>
    /\ UNCHANGED << tvars, lvars, kvars >>

\* (mutation) the restarted login is matched like the first one
FrontAfterLogin_Rematched ==
    /\ Observed("login")
    /\ oplog' = Append(oplog, Outcome("login"))
    /\ dpc' = IF lret.r.ok THEN "done"
              ELSE IF lret.r = Err("MfaRequired") THEN "request_mfa"
              ELSE "failed"
    /\ mfa_count' = IF mfa_count = MFA_THRESHOLD THEN 0 ELSE mfa_count
    /\ UNCHANGED << front, held >>
    /\ UNCHANGED << tvars, lvars, kvars >>

\* `match client.login(..).await`: Ok, MfaRequired on the first login, or
\* an error that is returned
FrontAfterLogin ==
    /\ Observed("login")
    /\ oplog' = Append(oplog, Outcome("login"))
    /\ dpc' = IF lret.r.ok THEN "done"
              ELSE IF lret.r = Err("MfaRequired") /\ mfa_count # MFA_THRESHOLD
                   THEN "request_mfa"
              ELSE "failed"
    /\ UNCHANGED << front, mfa_count, held >>
    /\ UNCHANGED << tvars, lvars, kvars >>

\* `let (otp_id, token_form, mfa_type) = client.request_mfa().await?;` and
\* the reading of the code, which may fail
FrontAfterRequestMfa ==
    \E read \in { "ok", "err" } :
        /\ Observed("request_mfa")
        /\ oplog' = Append(oplog, Outcome("request_mfa"))
        /\ held' = IF lret.r.ok THEN lret.r.v ELSE held
        /\ dpc' = IF lret.r.ok /\ read = "ok" THEN "submit_mfa" ELSE "failed"
        /\ UNCHANGED << front, mfa_count >>
        /\ UNCHANGED << tvars, lvars, kvars >>

\* BoursoWebClient::new(): the fields of a new client
NewClient ==
    /\ brs_mit_cookie' = ""
    /\ token' = ""
    /\ config' = DefaultConfig
    /\ challenge_id' = ""
    /\ virtual_pad_ids' = <<>>
    /\ customer_id' = ""
    /\ password' = <<>>
    /\ cookie_store' = {}
    /\ authenticated' = FALSE

\* the client used after the threshold: parse_matches makes a new one
\* (`web_client = get_client();`), handle_mfa keeps the one it has
ClientAtThreshold ==
    IF front = "lib" THEN NewClient ELSE UNCHANGED << session, authenticated >>

\* (mutation) the threshold is compared one too late
FrontAfterSubmitMfa_LateThreshold ==
    /\ Observed("submit_mfa")
    /\ oplog' = Append(oplog, Outcome("submit_mfa"))
    /\ IF lret.r.ok
       THEN /\ dpc' = "done"
            /\ UNCHANGED << mfa_count, session, authenticated >>
       ELSE IF lret.r = Err("MfaRequired")
       THEN /\ mfa_count' = mfa_count + 1
            /\ IF mfa_count' = MFA_THRESHOLD + 1
               THEN dpc' = "init_session" /\ ClientAtThreshold
               ELSE dpc' = "request_mfa" /\ UNCHANGED << session, authenticated >>
       ELSE /\ dpc' = "failed"
            /\ UNCHANGED << mfa_count, session, authenticated >>
    /\ UNCHANGED << front, held >>
    /\ UNCHANGED << info_enabled, lpc, calls, lrequests, lret, page, frame >>
    /\ UNCHANGED << tvars, kvars >>

\* `match client.submit_mfa(..).await`: Ok ends the loop; MfaRequired
\* increments mfa_count and loops, and at the top of the loop
\* `if mfa_count == 2` starts init_session and login again; any other error
\* is returned
FrontAfterSubmitMfa ==
    /\ Observed("submit_mfa")
    /\ oplog' = Append(oplog, Outcome("submit_mfa"))
    /\ IF lret.r.ok
       THEN /\ dpc' = "done"
            /\ UNCHANGED << mfa_count, session, authenticated >>
       ELSE IF lret.r = Err("MfaRequired")
       THEN /\ mfa_count' = mfa_count + 1
            /\ IF mfa_count' = MFA_THRESHOLD
               THEN dpc' = "init_session" /\ ClientAtThreshold
               ELSE dpc' = "request_mfa" /\ UNCHANGED << session, authenticated >>
       ELSE /\ dpc' = "failed"
            /\ UNCHANGED << mfa_count, session, authenticated >>
    /\ UNCHANGED << front, held >>
    /\ UNCHANGED << info_enabled, lpc, calls, lrequests, lret, page, frame >>
    /\ UNCHANGED << tvars, kvars >>

FNext ==
    \/ FrontAfterInitSession
    \/ FrontAfterLogin
    \/ FrontAfterRequestMfa
    \/ FrontAfterSubmitMfa

\* ------------------------------------------------------------------------
\* Specifications
\* ------------------------------------------------------------------------
\* no front-end: the library is called directly
NoFront ==
    /\ front = "none"
    /\ dpc = "none"
    /\ mfa_count = 0
    /\ held = NoHeld
    /\ oplog = <<>>

\* no legacy client
NoLegacy ==
    /\ leg_password = <<>>
    /\ leg_pc = "none"
    /\ leg_requests = <<>>
    /\ leg_pages = <<>>
    /\ leg_config = DefaultConfig
    /\ leg_ret = <<>>

\* no command given to a front-end
NoCommand ==
    /\ cmd = [op |-> "none"]
    /\ cmd_ret = <<>>

\* no other input under test
NoExtra ==
    /\ money_arg = <<>>
    /\ money_new = <<>>
    /\ NoCommand
    /\ NoLegacy

\* no keypad fragment under test
NoPad ==
    /\ pad_res = <<>>
    /\ pad_keys = NotDecoded
    /\ pad_pw = <<>>
    /\ pad_enc = <<>>
    /\ bal_shown = <<>>
    /\ bal_parsed = <<>>
    /\ NoExtra

Init == TInit /\ LInit /\ NoFront /\ NoPad

\* one transfer_funds stream on a client
TransferSpec == Init /\ [][TNext]_vars

\* init_session and login on a client, no transfer under way
LoginInit_Client ==
    /\ LInit
    /\ TInit
    /\ amount = Finite(2550)
    /\ reason = NoReason
    /\ from_account.kind = "Banking"
    /\ to_account.kind = "Savings"

LoginInit ==
    /\ LoginInit_Client
    /\ NoFront
    /\ NoPad

LoginSpec == LoginInit /\ [][LNext]_vars

\* the operations of a client called in any order, one at a time
ApiNext == LNext \/ MNext \/ ANext

ApiSpec == LoginInit /\ [][ApiNext]_vars

\* a front-end logs a user in
FrontInit ==
    /\ LoginInit_Client
    /\ front \in { "lib", "auth" }
    /\ dpc = "init_session"
    /\ mfa_count = 0
    /\ held = NoHeld
    /\ oplog = <<>>
    /\ NoPad

MfaNext == LNext \/ MNext \/ FNext

MfaSpec == FrontInit /\ [][MfaNext]_vars

\* every portal call and every prompt returns: a step that can be taken is
\* taken
MfaFairSpec == MfaSpec /\ WF_vars(MfaNext)

\* test_extract_data_matrix_keys: extract_data_matrix_keys applied to a
\* keypad fragment
DecodePad ==
    /\ pad_keys = NotDecoded
    /\ pad_keys' = << extract_data_matrix_keys(pad_res) >>
    /\ UNCHANGED << pad_res, pad_pw, pad_enc, bal_shown, bal_parsed, xvars >>
    /\ UNCHANGED << tvars, lvars, mvars >>

KeypadInit ==
    /\ LoginInit_Client
    /\ NoFront
    /\ pad_res \in PadFixtures \cup DefectivePadFixtures
    /\ pad_keys = NotDecoded
    /\ pad_pw \in PadPasswords
    /\ pad_enc = <<>>
    /\ bal_shown = <<>>
    /\ bal_parsed = <<>>
    /\ NoExtra

\* test_password_to_virtual_pad_keys: the decoded keys become the
\* virtual_pad_ids of a client and a password is encoded against them
EncodePad ==
    /\ pad_keys # NotDecoded
    /\ pad_keys[1].ok
    /\ pad_enc = <<>>
    /\ pad_enc' = << password_to_virtual_pad_keys(pad_keys[1].v, pad_pw) >>
    /\ UNCHANGED << pad_res, pad_keys, pad_pw, bal_shown, bal_parsed, xvars >>
    /\ UNCHANGED << tvars, lvars, mvars >>

KeypadNext == DecodePad \/ EncodePad

KeypadSpec == KeypadInit /\ [][KeypadNext]_vars

\* the balance of an account entry is parsed (extract_accounts, per match)
ParseBalance ==
    /\ bal_parsed = <<>>
    /\ bal_parsed' = << parse_balance(BalanceText(bal_shown)) >>
    /\ UNCHANGED << pad_res, pad_keys, pad_pw, pad_enc, bal_shown, xvars >>
    /\ UNCHANGED << tvars, lvars, mvars >>

BalanceInit ==
    /\ LoginInit_Client
    /\ NoFront
    /\ pad_res = <<>>
    /\ pad_keys = NotDecoded
    /\ pad_pw = <<>>
    /\ pad_enc = <<>>
    /\ bal_shown \in { b \in ShownBalances : BalanceMatches(BalanceText(b)) }
    /\ bal_parsed = <<>>
    /\ NoExtra

BalanceNext == ParseBalance

BalanceSpec == BalanceInit /\ [][BalanceNext]_vars

\* A client shared by a transfer and other operations. transfer_funds and
\* get_accounts take `&self`: the stream borrows the client shared, and
\* get_accounts may be called while the stream is alive. init_session and
\* login take `&mut self`: they can be called only when no stream is alive,
\* and no stream can be made or polled while one of them runs.
StreamAlive == polls > 0 /\ caller # "dropped" /\ pc # "done"
ExclusiveBorrow == lpc \in { "is_first", "is_second", "is_keypad", "login_form", "login_landing" }
MaySharedCall == lpc = "idle" => calls < MaxSharedCalls

SharedTransferStep ==
    /\ ~ExclusiveBorrow
    /\ TNext

SharedExclusiveStep ==
    /\ ~StreamAlive
    /\ MaySharedCall
    /\ LNext

SharedListingStep ==
    /\ MaySharedCall
    /\ (GetAccountsCall \/ GetAccountsPage)

SharedNext == SharedTransferStep \/ SharedExclusiveStep \/ SharedListingStep

SharedSpec == LoginInit /\ [][SharedNext]_vars

\* A client that is new, or that init_session and login have authenticated
\* (the session that LoginSpec reaches when login returns Ok and the landing
\* page holds a user hash).
ClientOf(configs) ==
    /\ config \in configs
    /\ authenticated = (config # DefaultConfig)
    /\ brs_mit_cookie = (IF authenticated THEN "mit" ELSE "")
    /\ token = (IF authenticated THEN "token" ELSE "")
    /\ challenge_id = (IF authenticated THEN "challenge" ELSE "")
    /\ virtual_pad_ids = (IF authenticated
                          THEN << "", "III", "HHH", "GGG", "FFF", "EEE", "DDD", "CCC", "BBB", "AAA" >>
                          ELSE << >>)
    /\ customer_id = (IF authenticated THEN "12345678" ELSE "")
    /\ password = (IF authenticated THEN << "", "AAA" >> ELSE << >>)
    /\ cookie_store = (IF authenticated THEN { "brsDomainMigration", "__brs_mit" } ELSE {})
    /\ info_enabled = FALSE
    /\ lpc = "idle"
    /\ calls = 0
    /\ lrequests = <<>>
    /\ lret = (IF authenticated THEN Returned("login", Ok("()")) ELSE NoReturn)
    /\ page = NoPage
    /\ frame = NoFrame

\* the trading operations called on a new or an authenticated client
TradeInit ==
    /\ TInit
    /\ amount = Finite(2550)
    /\ reason = NoReason
    /\ from_account.kind = "Banking"
    /\ to_account.kind = "Savings"
    /\ NoFront
    /\ NoPad
    /\ ClientOf({ DefaultConfig, ScrapedConfig("ok") })

TradeSummaryCall ==
    /\ calls < MaxTradeCalls
    /\ GetTradingSummaryCall

TradeOrderCall ==
    /\ calls < MaxTradeCalls
    /\ OrderCallOf(AnyAccounts, OrderSide, Quantities, OrderDataArgs)

TradeNext ==
    \/ TradeSummaryCall
    \/ GetTradingSummaryResponse
    \/ TradeOrderCall
    \/ OrderPrepareResponse
    \/ OrderCheckResponse
    \/ OrderConfirmResponse

TradeSpec == TradeInit /\ [][TradeNext]_vars

\* ------------------------------------------------------------------------
\* The transfer and order commands of the front-ends: parse_matches
\* (lib.rs), commands/transfer.rs and commands/trade/order.rs, and the
\* new_order handler (api/handlers.rs). Each lists the accounts, looks the
\* named accounts up in the listing, and only then transfers or orders.
\* ------------------------------------------------------------------------
CommandFronts == { "lib", "cli", "http" }

\* the account ids a command may name: three of the listing, one of no page
CommandIds == { "acc1", "acc2", "acc3", "acc9" }

TransferCommand(f, from, to) == [front |-> f, op |-> "transfer", from |-> from, to |-> to]
OrderCommand(f, account, side) ==
    [front |-> f, op |-> "order", account |-> account, side |-> side, quantity |-> 1]

\* the HTTP front-end has no transfer; it takes the side as a string
Commands ==
    { TransferCommand(f, a, b) : f \in { "lib", "cli" }, a \in CommandIds, b \in CommandIds }
    \cup { OrderCommand(f, a, s) : f \in { "lib", "cli" }, a \in CommandIds, s \in OrderSide }
    \cup { OrderCommand("http", a, s) : a \in CommandIds, s \in { "buy", "sell", "hold" } }

\* `accounts.iter().find(|a| a.id == id)`
find_OrFirst(accounts, id) ==
    LET at == { i \in 1..Len(accounts) : accounts[i].id = id } IN
      IF at # {} THEN Some(accounts[CHOOSE i \in at : \A j \in at : i <= j])
      ELSE IF accounts # <<>> THEN Some(accounts[1])
      ELSE NONE

find(accounts, id) ==
    LET at == { i \in 1..Len(accounts) : accounts[i].id = id } IN
      IF at = {} THEN NONE
      ELSE Some(accounts[CHOOSE i \in at : \A j \in at : i <= j])

\* the kind the command lists: every kind for a transfer, Trading for an order
listed_kind(c) == IF c.op = "transfer" THEN None ELSE "Trading"

\* `.context("... account not found ...")?`, `.ok_or(ApiError::BadClientData)?`
not_found(f, what) == IF f = "http" THEN "BadClientData" ELSE what \o " not found"

\* the side of an order command: typed on the command line, matched from
\* "buy" and "sell" by the handler
side_of(s) ==
    CASE s \in OrderSide -> Some(s)
      [] s = "buy" -> Some("Buy")
      [] s = "sell" -> Some("Sell")
      [] OTHER -> NONE

CmdGetAccounts ==
    /\ front \in CommandFronts
    /\ GetAccountsCallOf({ listed_kind(cmd) })

\* the listing has returned: its error is returned, or the named accounts
\* are looked up and the command goes on to the transfer or the order
FrontAfterGetAccounts ==
    /\ front \in CommandFronts
    /\ Observed("get_accounts")
    /\ oplog' = Append(oplog, Outcome("get_accounts"))
    /\ LET failed(r) == /\ dpc' = "failed"
                        /\ cmd_ret' = << r >>
                        /\ UNCHANGED << from_account, to_account >>
           accounts == lret.r.v IN
         IF ~lret.r.ok THEN failed(lret.r)
         ELSE IF cmd.op = "transfer"
         THEN IF find(accounts, cmd.from) = NONE
              THEN failed(Err(not_found(front, "From account")))
              ELSE IF find(accounts, cmd.to) = NONE
              THEN failed(Err(not_found(front, "To account")))
              ELSE /\ dpc' = "transfer"
                   /\ from_account' = [id |-> find(accounts, cmd.from)[1].id,
                                       kind |-> find(accounts, cmd.from)[1].kind]
                   /\ to_account' = [id |-> find(accounts, cmd.to)[1].id,
                                     kind |-> find(accounts, cmd.to)[1].kind]
                   /\ UNCHANGED cmd_ret
         ELSE IF find(accounts, cmd.account) = NONE
              THEN failed(Err(not_found(front, "Account")))
              ELSE IF side_of(cmd.side) = NONE
              THEN failed(Err("BadClientData"))
              ELSE /\ dpc' = "order"
                   /\ UNCHANGED << from_account, to_account, cmd_ret >>
    /\ UNCHANGED << front, mfa_count, held >>
    /\ UNCHANGED << amount, reason, pc, caller, polls, events, requests, results, response, locals >>
    /\ UNCHANGED << pad_res, pad_keys, pad_pw, pad_enc, bal_shown, bal_parsed, money_arg, money_new, cmd, legvars >>
    /\ UNCHANGED lvars

\* `client.order(side, account, symbol, quantity, None)`
CmdOrder ==
    /\ front \in CommandFronts
    /\ dpc = "order"
    /\ OrderCallOf({ [id |-> a[1].id, kind |-> a[1].kind] : a \in { find(lret.r.v, cmd.account) } },
                   { side_of(cmd.side)[1] }, { cmd.quantity }, { NONE })

\* `.await?` on the order
FrontAfterOrder ==
    /\ front \in CommandFronts
    /\ Observed("order")
    /\ oplog' = Append(oplog, Outcome("order"))
    /\ dpc' = IF lret.r.ok THEN "done" ELSE "failed"
    /\ cmd_ret' = << lret.r >>
    /\ UNCHANGED << front, mfa_count, held >>
    /\ UNCHANGED << pad_res, pad_keys, pad_pw, pad_enc, bal_shown, bal_parsed, money_arg, money_new, cmd, legvars >>
    /\ UNCHANGED << tvars, lvars >>

\* the stream has yielded an error that the loop has not yet returned
ErrorYielded == caller = "idle" /\ events # <<>> /\ ~Last(events).ok

\* `while let Some(progress_result) = stream.next().await`: the command
\* advances the stream, unless the last item was an error
CmdTransferStep ==
    /\ front \in CommandFronts
    /\ dpc = "transfer"
    /\ ~ErrorYielded
    /\ TNext
    /\ caller' # "dropped"

\* (mutation) the error ends the loop like the end of the stream
FrontTransferError_AsEnd ==
    /\ front \in CommandFronts
    /\ dpc = "transfer"
    /\ ErrorYielded
    /\ dpc' = "done"
    /\ cmd_ret' = << Ok("()") >>
    /\ caller' = "dropped"
    /\ UNCHANGED << front, mfa_count, held, oplog >>
    /\ UNCHANGED << inputs, locals, pc, polls, events, requests, results, response >>
    /\ UNCHANGED << pad_res, pad_keys, pad_pw, pad_enc, bal_shown, bal_parsed, money_arg, money_new, cmd, legvars >>
    /\ UNCHANGED lvars

\* `let progress = progress_result?;`: the error is returned and the
\* stream is dropped with the function's locals
FrontTransferError ==
    /\ front \in CommandFronts
    /\ dpc = "transfer"
    /\ ErrorYielded
    /\ dpc' = "failed"
    /\ cmd_ret' = << Err(Last(events).v) >>
    /\ caller' = "dropped"
    /\ UNCHANGED << front, mfa_count, held, oplog >>
    /\ UNCHANGED << inputs, locals, pc, polls, events, requests, results, response >>
    /\ UNCHANGED << pad_res, pad_keys, pad_pw, pad_enc, bal_shown, bal_parsed, money_arg, money_new, cmd, legvars >>
    /\ UNCHANGED lvars

\* the stream has ended: "Transfer ... successful", Ok(())
FrontTransferEnd ==
    /\ front \in CommandFronts
    /\ dpc = "transfer"
    /\ pc = "done"
    /\ caller = "idle"
    /\ dpc' = "done"
    /\ cmd_ret' = << Ok("()") >>
    /\ caller' = "dropped"
    /\ UNCHANGED << front, mfa_count, held, oplog >>
    /\ UNCHANGED << inputs, locals, pc, polls, events, requests, results, response >>
    /\ UNCHANGED << pad_res, pad_keys, pad_pw, pad_enc, bal_shown, bal_parsed, money_arg, money_new, cmd, legvars >>
    /\ UNCHANGED lvars

\* ------------------------------------------------------------------------
\* MoneyAmount (bourso_api/src/types.rs)
\* ------------------------------------------------------------------------
\* f64 values: a finite value in thousandths, an infinity or a NaN
Milli(m) == [kind |-> "finite", milli |-> m]
NonFinite == { [kind |-> k, milli |-> 0] : k \in { "inf", "-inf", "nan" } }

\* `0.02`, in thousandths
FRACT_LIMIT == 20

\* the values v of MoneyArgs whose v.fract() lies above 0.02 in f64 while
\* the decimal fraction is 0.02 (1.02_f64.fract() is 0.020000000000000018)
FractRoundsAbove == { 1020 }

\* v.fract().abs() <= 0.02 (false when fract() is NaN)
fract_within_limit(v) ==
    /\ v.kind = "finite"
    /\ LET a == IF v.milli < 0 THEN 0 - v.milli ELSE v.milli IN
         /\ a % 1000 <= FRACT_LIMIT
         /\ v.milli \notin FractRoundsAbove

\* v > 0.0
positive(v) == v.kind = "inf" \/ (v.kind = "finite" /\ v.milli > 0)

\* MoneyAmount::new
MoneyAmount_new(v) ==
    IF positive(v) /\ fract_within_limit(v) THEN Ok(v)
    ELSE Err("ValueError::MoneyAmount")

\* the arguments: every thousandth around zero and up to MaxMilli, the
\* amounts 10.015, 10.02, 10.50, 10.505, and the values that are no number
MoneyArgs ==
    { Milli(m) : m \in (0 - 30) .. MaxMilli }
    \cup { Milli(10015), Milli(10020), Milli(10500), Milli(10505) }
    \cup NonFinite

NewMoneyAmount ==
    /\ money_new = <<>>
    /\ money_new' = << MoneyAmount_new(money_arg[1]) >>
    /\ UNCHANGED << pad_res, pad_keys, pad_pw, pad_enc, bal_shown, bal_parsed, money_arg >>
    /\ UNCHANGED << cmd, cmd_ret, legvars >>
    /\ UNCHANGED << tvars, lvars, mvars >>

MoneyInit ==
    /\ LoginInit_Client
    /\ NoFront
    /\ pad_res = <<>>
    /\ pad_keys = NotDecoded
    /\ pad_pw = <<>>
    /\ pad_enc = <<>>
    /\ bal_shown = <<>>
    /\ bal_parsed = <<>>
    /\ money_arg \in { << v >> : v \in MoneyArgs }
    /\ money_new = <<>>
    /\ NoCommand
    /\ NoLegacy

MoneyNext == NewMoneyAmount

MoneySpec == MoneyInit /\ [][MoneyNext]_vars

\* a front-end runs a transfer or an order command on the client it has
\* logged in
CommandInit ==
    /\ TInit
    /\ amount \in { Finite(999), Finite(2550) }
    /\ reason = NoReason
    /\ from_account.kind = "Banking"
    /\ to_account.kind = "Savings"
    /\ ClientOf({ ScrapedConfig("ok") })
    /\ cmd \in Commands
    /\ front = cmd.front
    /\ dpc = "get_accounts"
    /\ mfa_count = 0
    /\ held = NoHeld
    /\ oplog = <<>>
    /\ cmd_ret = <<>>
    /\ pad_res = <<>>
    /\ pad_keys = NotDecoded
    /\ pad_pw = <<>>
    /\ pad_enc = <<>>
    /\ bal_shown = <<>>
    /\ bal_parsed = <<>>
    /\ money_arg = <<>>
    /\ money_new = <<>>
    /\ NoLegacy

CommandNext ==
    \/ CmdGetAccounts
    \/ GetAccountsPage
    \/ FrontAfterGetAccounts
    \/ CmdOrder
    \/ OrderPrepareResponse
    \/ OrderCheckResponse
    \/ OrderConfirmResponse
    \/ FrontAfterOrder
    \/ CmdTransferStep
    \/ FrontTransferError
    \/ FrontTransferEnd

CommandSpec == CommandInit /\ [][CommandNext]_vars

\* ------------------------------------------------------------------------
\* The HTTP front-end (api/errors.rs, api/handlers.rs): the get_accounts
\* handler logs in on a new client, lists the accounts and answers
\* ------------------------------------------------------------------------
\* (mutation) MfaRequired is not told apart from the other errors
ApiError_from_CredentialsOnly(err) ==
    IF err = "InvalidCredentials" THEN "Unauthorized" ELSE "InternalError"

\* impl From<anyhow::Error> for ApiError
ApiError_from(err) ==
    IF err = "InvalidCredentials" THEN "Unauthorized"
    ELSE IF err = "MfaRequired" THEN "Unauthorized"
    ELSE "InternalError"

\* ApiError::error_response: the status of the response
error_response(e) ==
    CASE e = "InternalError" -> [status |-> 500]
      [] e = "BadClientData" -> [status |-> 400]
      [] e = "Unauthorized" -> [status |-> 401]

\* the `kind` of the query: `_ => AccountKind::Banking, // FIXME`
query_kind(k) ==
    CASE k = None -> None
      [] k = "banking" -> "Banking"
      [] k = "saving" -> "Savings"
      [] k = "trading" -> "Trading"
      [] k = "loans" -> "Loans"
      [] OTHER -> "Banking"

HandlerQueries == { None, "trading", "loans", "all" }

\* `.await?` in a handler: an error is converted and answered, and the
\* handler is left; otherwise the handler goes on to `next`
HandlerAwait(op, next) ==
    /\ front = "http"
    /\ Observed(op)
    /\ oplog' = Append(oplog, Outcome(op))
    /\ IF lret.r.ok
       THEN dpc' = next /\ UNCHANGED cmd_ret
       ELSE dpc' = "failed" /\ cmd_ret' = << error_response(ApiError_from(lret.r.v)) >>
    /\ UNCHANGED << front, mfa_count, held >>
    /\ UNCHANGED << pad_res, pad_keys, pad_pw, pad_enc, bal_shown, bal_parsed, money_arg, money_new, cmd, legvars >>
    /\ UNCHANGED << tvars, lvars >>

HandlerAfterInitSession == HandlerAwait("init_session", "login")

HandlerAfterLogin == HandlerAwait("login", "get_accounts")

HandlerGetAccounts ==
    /\ front = "http"
    /\ GetAccountsCallOf({ query_kind(cmd.kind) })

\* `Ok(HttpResponse::Ok().json(accounts))`
HandlerAfterGetAccounts ==
    /\ front = "http"
    /\ Observed("get_accounts")
    /\ oplog' = Append(oplog, Outcome("get_accounts"))
    /\ IF lret.r.ok
       THEN dpc' = "done" /\ cmd_ret' = << [status |-> 200] >>
       ELSE dpc' = "failed" /\ cmd_ret' = << error_response(ApiError_from(lret.r.v)) >>
    /\ UNCHANGED << front, mfa_count, held >>
    /\ UNCHANGED << pad_res, pad_keys, pad_pw, pad_enc, bal_shown, bal_parsed, money_arg, money_new, cmd, legvars >>
    /\ UNCHANGED << tvars, lvars >>

HandlerInit ==
    /\ LoginInit_Client
    /\ front = "http"
    /\ dpc = "init_session"
    /\ mfa_count = 0
    /\ held = NoHeld
    /\ oplog = <<>>
    /\ cmd \in { [front |-> "http", op |-> "get_accounts", kind |-> k] : k \in HandlerQueries }
    /\ cmd_ret = <<>>
    /\ pad_res = <<>>
    /\ pad_keys = NotDecoded
    /\ pad_pw = <<>>
    /\ pad_enc = <<>>
    /\ bal_shown = <<>>
    /\ bal_parsed = <<>>
    /\ money_arg = <<>>
    /\ money_new = <<>>
    /\ NoLegacy

HandlerNext ==
    \/ LNext
    \/ HandlerAfterInitSession
    \/ HandlerAfterLogin
    \/ HandlerGetAccounts
    \/ GetAccountsPage
    \/ HandlerAfterGetAccounts

HandlerSpec == HandlerInit /\ [][HandlerNext]_vars

\* ------------------------------------------------------------------------
\* The legacy client (bourso/client.rs): login and the hand-off to the
\* strong authentication, handle_strong_auth_verification
\* ------------------------------------------------------------------------
\* the keypad mapping init_session left in self.virtual_pad_ids
LEGACY_PAD_IDS == << "CCC", "BBB", "AAA", "JJJ", "III", "HHH", "GGG", "FFF", "EEE", "DDD" >>

LegacyPasswords == { << 1, 2 >>, << 1, NonDigit >> }

\* the /securisation/validation page: whether it holds the form token and
\* the form state
ValidationPage(io, tok, state) == [io |-> io, token |-> tok, formstate |-> state]
ValidationPages ==
    { ValidationPage("sendErr", FALSE, FALSE),
      ValidationPage("ok", FALSE, TRUE),
      ValidationPage("ok", TRUE, FALSE),
      ValidationPage("ok", TRUE, TRUE) }

\* an answer whose body is not read
Answers == { [io |-> "ok"], [io |-> "sendErr"] }

LegSend(method, path, nextpc) ==
    /\ leg_requests' = Append(leg_requests, [method |-> method, path |-> path])
    /\ leg_pc' = nextpc
    /\ UNCHANGED leg_ret

LegReceived(step, res) ==
    /\ leg_pc = step
    /\ leg_pages' = Append(leg_pages, [step |-> step, page |-> res])

\* login returns r
LegReturn(r) ==
    /\ leg_ret' = << r >>
    /\ leg_pc' = "done"
    /\ UNCHANGED leg_requests

\* an unwrap() or expect() panics: login does not return
LegPanic ==
    /\ leg_pc' = "panicked"
    /\ UNCHANGED << leg_requests, leg_ret >>

\* `match self.handle_strong_auth_verification().await`: what login
\* returns for the outcome h of the hand-off
login_after_hand_off(h) ==
    IF ~h.ok THEN Ok("()")
    ELSE IF h.v THEN Ok("()")
    ELSE Err("Strong authentication verification failed or incomplete.")

\* handle_strong_auth_verification returns h to login
HandOff(h) == LegReturn(login_after_hand_off(h))

LegacyFrame ==
    /\ UNCHANGED << pad_res, pad_keys, pad_pw, pad_enc, bal_shown, bal_parsed, money_arg, money_new >>
    /\ UNCHANGED << cmd, cmd_ret, leg_password >>
    /\ UNCHANGED << tvars, lvars, mvars >>

\* login: the password is encoded and the form is posted
LegacyLoginCall ==
    /\ leg_pc = "start"
    /\ LET keys == password_to_virtual_pad_keys(LEGACY_PAD_IDS, leg_password) IN
         IF keys.ok
         THEN LegSend("POST", "/connexion/saisie-mot-de-passe", "form")
         ELSE LegReturn(keys)
    /\ UNCHANGED << leg_pages, leg_config >>
    /\ LegacyFrame

\* the answer to the form: anything but a 302 is an error
LegacyFormResponse ==
    \E res \in FormResponses :
        /\ LegReceived("form", res)
        /\ IF res.io = "sendErr" THEN LegReturn(Err(TransportError))
           ELSE IF res.status # 302 THEN LegReturn(Err("Could not login to Bourso website, status code"))
           ELSE LegSend("GET", "/", "landing")
        /\ UNCHANGED leg_config
        /\ LegacyFrame

\* the landing page: the log-out link, the /securisation link, or neither
LegacyLanding ==
    \E res \in LandingPages :
        /\ LegReceived("landing", res)
        /\ IF res.io # "ok"
           THEN LegReturn(Err(TransportError)) /\ UNCHANGED leg_config
           ELSE IF res.logout
           THEN LET c == extract_brs_config(res.config) IN
                  IF c.ok THEN LegReturn(Ok("()")) /\ leg_config' = c.v
                  ELSE IF c.v = PANIC THEN LegPanic /\ UNCHANGED leg_config
                  ELSE LegReturn(c) /\ UNCHANGED leg_config
           ELSE IF res.securisation
           THEN LegSend("GET", "/securisation", "sa_securisation") /\ UNCHANGED leg_config
           ELSE LegReturn(Err("Could not login to Bourso website")) /\ UNCHANGED leg_config
        /\ LegacyFrame

\* hand-off: the /securisation page gives the config and its user hash
HandOffSecurisation ==
    \E res \in LandingPages :
        /\ LegReceived("sa_securisation", res)
        /\ IF res.io # "ok"
           THEN HandOff(Err(TransportError)) /\ UNCHANGED leg_config
           ELSE LET c == extract_brs_config(res.config) IN
                  IF ~c.ok
                  THEN /\ IF c.v = PANIC THEN LegPanic ELSE HandOff(c)
                       /\ UNCHANGED leg_config
                  ELSE /\ leg_config' = c.v
                       /\ IF c.v.user_hash = None
                          THEN HandOff(Err("Strong authentication failed: User hash not found."))
                          ELSE LegSend("GET", "/securisation/validation", "sa_validation")
        /\ LegacyFrame

\* hand-off: the form token and the form state are taken from the
\* validation page with unwrap()
HandOffValidationPage ==
    \E res \in ValidationPages :
        /\ LegReceived("sa_validation", res)
        /\ IF res.io # "ok" THEN HandOff(Err(TransportError))
           ELSE IF ~res.token \/ ~res.formstate THEN LegPanic
           ELSE LegSend("OPTIONS", "session/challenge/checkwebtoapp/10305", "sa_options")
        /\ UNCHANGED leg_config
        /\ LegacyFrame

HandOffOptions ==
    \E res \in Answers :
        /\ LegReceived("sa_options", res)
        /\ IF res.io # "ok" THEN HandOff(Err(TransportError))
           ELSE LegSend("POST", "session/challenge/startwebtoapp/10305", "sa_start")
        /\ UNCHANGED leg_config
        /\ LegacyFrame

\* hand-off: the challenge is started; the user is asked to press Enter
HandOffStart ==
    \E res \in Answers :
        /\ LegReceived("sa_start", res)
        /\ IF res.io # "ok" THEN HandOff(Err(TransportError))
           ELSE leg_pc' = "sa_enter" /\ UNCHANGED << leg_requests, leg_ret >>
        /\ UNCHANGED leg_config
        /\ LegacyFrame

\* `io::stdin().read_line(..).expect("Failed to read line")`
HandOffEnter ==
    \E read \in { "ok", "err" } :
        /\ leg_pc = "sa_enter"
        /\ IF read = "err" THEN LegPanic
           ELSE LegSend("POST", "/securisation/validation", "sa_validate")
        /\ UNCHANGED << leg_pages, leg_config >>
        /\ LegacyFrame

HandOffValidate ==
    \E res \in Answers :
        /\ LegReceived("sa_validate", res)
        /\ IF res.io # "ok" THEN HandOff(Err(TransportError))
           ELSE LegSend("GET", "/", "sa_landing")
        /\ UNCHANGED leg_config
        /\ LegacyFrame

\* hand-off: Ok(true) if the landing page holds the log-out link
HandOffLanding ==
    \E res \in LandingPages :
        /\ LegReceived("sa_landing", res)
        /\ IF res.io # "ok" THEN HandOff(Err(TransportError))
           ELSE HandOff(Ok(res.logout))
        /\ UNCHANGED leg_config
        /\ LegacyFrame

LegacyInit ==
    /\ LoginInit_Client
    /\ NoFront
    /\ pad_res = <<>>
    /\ pad_keys = NotDecoded
    /\ pad_pw = <<>>
    /\ pad_enc = <<>>
    /\ bal_shown = <<>>
    /\ bal_parsed = <<>>
    /\ money_arg = <<>>
    /\ money_new = <<>>
    /\ NoCommand
    /\ leg_password \in LegacyPasswords
    /\ leg_pc = "start"
    /\ leg_requests = <<>>
    /\ leg_pages = <<>>
    /\ leg_config = DefaultConfig
    /\ leg_ret = <<>>

LegacyNext ==
    \/ LegacyLoginCall
    \/ LegacyFormResponse
    \/ LegacyLanding
    \/ HandOffSecurisation
    \/ HandOffValidationPage
    \/ HandOffOptions
    \/ HandOffStart
    \/ HandOffEnter
    \/ HandOffValidate
    \/ HandOffLanding

LegacySpec == LegacyInit /\ [][LegacyNext]_vars

Next == TNext \/ LNext

Spec == Init /\ [][Next]_vars

\* ------------------------------------------------------------------------
\* Properties of the transfer workflow
\* ------------------------------------------------------------------------
Range(s) == { s[i] : i \in DOMAIN s }

\* the names of the step functions in the order the generator calls them
StepNames ==
    << "init_transfer", "extract_flow_instance", "set_debit_account",
       "set_credit_account", "set_transfer_amount", "submit_step_7",
       "set_transfer_reason", "confirm_transfer" >>

ExpectedProgress == [i \in 1..Len(TransferProgress) |-> Ok(TransferProgress[i])]

AllStepsSucceeded ==
    /\ Validate(amount, reason).ok
    /\ Len(results) = Len(StepNames)
    /\ \A i \in 1..Len(results) : results[i].ok

\* the amount is below 10.00 / is at least 10.00 (a NaN is neither)
AmountBelowMin(a) == ~a.nan /\ a.cents < 1000
AmountAtLeastMin(a) == ~a.nan /\ a.cents >= 1000

ReasonTooLongInChars(r) == r.some /\ CharCount(r.s) > 50

Ended == pc \in { "y_Err", "y_Completed", "done" }

\* C1: the progress values are yielded in the order of TransferProgress,
\* each once, and when validation and all eight step functions succeed the
\* stream has yielded exactly Validating .. Completed (SubmittingStep7 is the
\* "intermediate step" value) and nothing else, and is at its end.
C1_ProgressSequence ==
    /\ \A i \in 1..Len(events) :
          events[i].ok => (i <= Len(ExpectedProgress) /\ events[i] = ExpectedProgress[i])
    /\ AllStepsSucceeded => (events = ExpectedProgress /\ pc \in { "y_Completed", "done" })

C1_Witness == pc = "done" /\ AllStepsSucceeded /\ events = ExpectedProgress

\* C2: a failure halts the transfer in place: an Err is the last item of
\* the stream, a step function that returned Err has its error yielded
\* at once, and after an Err neither an item nor an HTTP request follows.
C2_FailureHalts ==
    /\ [](\A i \in 1..Len(events) : ~events[i].ok => i = Len(events))
    /\ []((results # <<>> /\ ~Last(results).ok) =>
             /\ events # <<>>
             /\ Last(events) = Err(Last(results).v)
             /\ Len(requests) = Len(results))
    /\ []((~Validate(amount, reason).ok /\ Len(events) >= 2) =>
             /\ events = << Ok("Validating"), Err(Validate(amount, reason).v) >>
             /\ requests = <<>>)
    /\ [][(events # <<>> /\ ~Last(events).ok) =>
             (events' = events /\ requests' = requests /\ pc' \in { "y_Err", "done" })]_vars

C2_Witness ==
    /\ pc = "done"
    /\ Len(results) = 4
    /\ Len(requests) = 4
    /\ Last(events) = Err("SetCreditAccountFailed")

\* C3 as stated: every amount below 10.00 ends with AmountTooLow and every
\* reason longer than 50 characters ends with ReasonIsTooLong, and no HTTP
\* request is ever sent in either case.
C3_ValidationErrors_AsStated ==
    /\ AmountBelowMin(amount) =>
          /\ requests = <<>>
          /\ Ended => Last(events) = Err("AmountTooLow")
    /\ ReasonTooLongInChars(reason) =>
          /\ requests = <<>>
          /\ Ended => Last(events) = Err("ReasonIsTooLong")

\* C3 amended: every amount below 10.00 ends with AmountTooLow; every
\* reason longer than 50 characters given with an amount that is not below
\* 10.00 ends with ReasonIsTooLong (the amount is checked first); in both
\* cases no HTTP request is ever sent.
C3_ValidationErrors ==
    /\ AmountBelowMin(amount) =>
          /\ requests = <<>>
          /\ Ended => Last(events) = Err("AmountTooLow")
    /\ ReasonTooLongInChars(reason) =>
          /\ requests = <<>>
          /\ (Ended /\ ~AmountBelowMin(amount)) => Last(events) = Err("ReasonIsTooLong")

C3_Witness ==
    /\ pc = "done"
    /\ ReasonTooLongInChars(reason)
    /\ Last(events) = Err("ReasonIsTooLong")
    /\ requests = <<>>

\* C4: the stream is pull-driven: a request is sent only in a step in
\* which the caller calls next(), the request of a step is sent only after
\* that step's progress value was yielded to the caller (so the k-th
\* request needs at least k+2 calls of next()), and once the caller has
\* dropped the stream no request is sent.
C4_PullDriven ==
    /\ [](Len(requests) <= (IF polls >= 2 THEN polls - 2 ELSE 0))
    /\ [](\A i \in 1..Len(requests) :
             Len(events) >= i + 1 /\ events[i + 1] = Ok(TransferProgress[i + 1]))
    /\ [][requests' # requests => (caller = "idle" /\ polls' = polls + 1)]_vars
    /\ [][caller = "dropped" => (requests' = requests /\ events' = events)]_vars

C4_Witness ==
    /\ caller = "dropped"
    /\ pc = "a_set_debit_account"
    /\ Len(requests) = 3
    /\ Len(results) = 2

\* C5: Completed is yielded only when the response to the confirmation
\* request had status 200 and a body with the confirmation marker; a 200
\* response without the marker ends the stream with InvalidTransfer.
C5_CompletedOnlyOnConfirmation ==
    /\ Ok("Completed") \in Range(events) =>
          /\ Len(requests) = Len(StepNames)
          /\ Last(requests).name = "confirm_transfer"
          /\ response.io = "ok"
          /\ response.status = 200
          /\ response.confirmation
    /\ (Len(results) = Len(StepNames) /\ response.io = "ok" /\ response.status = 200
            /\ ~response.confirmation) =>
          /\ Last(events) = Err("InvalidTransfer")
          /\ Ok("Completed") \notin Range(events)

C5_Witness ==
    /\ pc = "done"
    /\ Len(results) = Len(StepNames)
    /\ response.status = 200
    /\ ~response.confirmation
    /\ Last(events) = Err("InvalidTransfer")

\* C6: the requests are sent in the order of StepNames, each at most once,
\* and a request is sent only after the step function of the previous
\* request has returned Ok for its response.
C6_RequestOrder ==
    /\ Len(requests) <= Len(StepNames)
    /\ \A i \in 1..Len(requests) : requests[i].name = StepNames[i]
    /\ Len(results) <= Len(requests)
    /\ Len(requests) <= Len(results) + 1
    /\ \A i \in 2..Len(requests) : results[i - 1].ok

C6_Witness == Len(requests) = Len(StepNames) /\ Len(results) = Len(StepNames) - 1

\* C7: validation lets the transfer proceed to InitializingTransfer exactly
\* when the amount is at least 10.00 and the reason is absent or has at
\* most 50 characters.
C7_ValidationExact ==
    Len(events) >= 2 =>
        (events[2] = Ok("InitializingTransfer")
            <=> (AmountAtLeastMin(amount) /\ ~ReasonTooLongInChars(reason)))

\* the Result of the k-th step function for a response
StepResult(k, resp) ==
    CASE k = 1 -> init_transfer(resp)
      [] k = 2 -> extract_flow_instance(resp)
      [] k = 3 -> set_debit_account(resp)
      [] k = 4 -> set_credit_account(resp)
      [] k = 5 -> set_transfer_amount(resp)
      [] k = 6 -> submit_step_7(resp)
      [] k = 7 -> set_transfer_reason(resp)
      [] k = 8 -> confirm_transfer(resp)

\* the errors the k-th step reports for the responses that did arrive
StepErrors(k) ==
    { StepResult(k, resp).v : resp \in { x \in Responses : x.io = "ok" /\ ~StepResult(k, x).ok } }

\* C8: a step that fails on a response (unexpected status, missing redirect
\* target, missing flow-instance token) reports a TransferError, and one
\* that no other step reports.
C8_DistinctNamedErrors ==
    (results # <<>> /\ ~Last(results).ok /\ response.io = "ok") =>
        /\ Last(results).v \in TransferError
        /\ \A j \in (1..Len(StepNames)) \ { Len(results) } :
              Last(results).v \notin StepErrors(j)

\* C9: every request sent after the extraction carries the extracted
\* flow-instance token, the transfer id parsed at initialisation and the
\* id of the source account, and none of the three changes afterwards.
C9_TokenReplayed ==
    /\ [](\A i \in 3..Len(requests) :
             /\ requests[i].form.instance = results[2].v
             /\ requests[i].url.tid = results[1].v
             /\ requests[i].url.from = from_account.id)
    /\ []((Len(results) >= 2 /\ results[2].ok) =>
             (flow_instance = results[2].v /\ transfer_id = results[1].v))
    /\ [][(Len(results) >= 2 /\ results[2].ok) =>
             /\ flow_instance' = flow_instance
             /\ transfer_id' = transfer_id
             /\ from_account' = from_account]_vars

C9_Witness ==
    /\ Len(requests) = Len(StepNames)
    /\ flow_instance = "f2"
    /\ transfer_id = "t2"
    /\ Last(requests).form.instance = "f2"
    /\ Last(requests).url.tid = "t2"

\* ------------------------------------------------------------------------
\* Properties of login
\* ------------------------------------------------------------------------
\* the last call was a login that received a landing page and is over
LandingClassified ==
    /\ lpc \in { "idle", "panicked" }
    /\ lret.op = "login"
    /\ page.io = "ok"

\* C10: login classifies the landing page: with the log-out link it
\* succeeds and the session holds the scraped user hash and bearer token;
\* without it, with the security-check hint it fails with MfaRequired;
\* with neither it fails with InvalidCredentials.
C10_LandingClassification ==
    LandingClassified =>
        /\ page.logout =>
              /\ lret.r = Ok("()")
              /\ config.user_hash # None
              /\ config.default_api_bearer # ""
        /\ (~page.logout /\ page.securisation) => lret.r = Err("MfaRequired")
        /\ (~page.logout /\ ~page.securisation) => lret.r = Err("InvalidCredentials")

\* the last call was a login that got an answer to its form, with a status
\* other than 302 and a body that could be read, and is over
NonRedirectAnswer ==
    /\ lpc \in { "idle", "panicked" }
    /\ lret.op = "login"
    /\ frame.op = "login"
    /\ frame.res.io = "ok"
    /\ frame.res.status # 302

\* the form POST is the last request login sent: no landing page was fetched
NoLandingFetch ==
    /\ lrequests # <<>>
    /\ Last(lrequests).method = "POST"
    /\ Last(lrequests).path = "/connexion/saisie-mot-de-passe"

\* C11 as stated: for every answer to the login form with a status other
\* than 302, whatever its body, login fails with InvalidCredentials and does
\* not fetch the landing page.
C11_NonRedirect_AsStated ==
    NonRedirectAnswer => (lret.r = Err("InvalidCredentials") /\ NoLandingFetch)

\* C11 amended: for every answer to the login form with a status other than
\* 302, login fails and does not fetch the landing page; it fails with
\* InvalidCredentials when the body carries one of the two invalid-credentials
\* messages, and with the untyped error "Could not login to Bourso website"
\* otherwise.
C11_NonRedirect ==
    NonRedirectAnswer =>
        /\ NoLandingFetch
        /\ frame.res.invalid => lret.r = Err("InvalidCredentials")
        /\ ~frame.res.invalid => lret.r = Err("Could not login to Bourso website")

C11_Witness ==
    /\ NonRedirectAnswer
    /\ frame.res.status = 401
    /\ ~frame.res.invalid
    /\ lret.r = Err("Could not login to Bourso website")
    /\ NoLandingFetch

\* all 10 slots of a keypad mapping hold a key identifier
Resolved(ids) == Len(ids) = 10 /\ \A i \in 1..Len(ids) : ids[i] # ""

\* C13: a login called on a session whose keypad mapping is empty or has an
\* unresolved slot returns an error value (it does not abort), stores no
\* encoded password and sends no HTTP request.
C13_KeypadPrecondition ==
    [][(LoginCall /\ ~Resolved(virtual_pad_ids)) =>
          /\ lpc' = "idle"
          /\ lret'.op = "login"
          /\ ~lret'.r.ok
          /\ lret'.r.v # PANIC
          /\ password' = password
          /\ lrequests' = lrequests]_vars

\* C14: init_session never aborts the program: a cookie, form token,
\* configuration blob, challenge id or key glyph missing from a response
\* makes it return an error value; it returns Ok only with every slot of
\* the keypad mapping resolved; and the step that returns the error sends
\* no further request.
C14_ParseMissIsError ==
    /\ []((lret.op = "init_session" /\ ~lret.r.ok) => (lret.r.v # PANIC /\ lpc # "panicked"))
    /\ []((lret.op = "init_session" /\ lret.r.ok /\ lpc = "idle") => Resolved(virtual_pad_ids))
    /\ [][(lret' # lret /\ lret'.op = "init_session" /\ ~lret'.r.ok) =>
              lrequests' = lrequests]_vars

\* ------------------------------------------------------------------------
\* Properties of the MFA loop of the front-ends
\* ------------------------------------------------------------------------
IsCall(x, op) == x.e = "call" /\ x.op = op
IsOutcome(x, op) == x.e = "ret" /\ x.op = op

\* the operations called, in order
OpsCalled(log) == [i \in 1..Len(SelectSeq(log, LAMBDA x : x.e = "call")) |->
                      SelectSeq(log, LAMBDA x : x.e = "call")[i].op]

\* the positions in oplog of the MfaRequired outcomes of submit_mfa
MfaRequiredAt ==
    { i \in 1..Len(oplog) : IsOutcome(oplog[i], "submit_mfa") /\ oplog[i].v = Err("MfaRequired") }

IsPrefix(s, t) == Len(s) <= Len(t) /\ \A i \in 1..Len(s) : s[i] = t[i]

\* C15: once submit_mfa has returned MfaRequired twice (necessarily in a
\* row: any other outcome ends the loop), the front-end calls init_session
\* next and login after it, and never request_mfa or submit_mfa again; in
\* all, neither request_mfa nor submit_mfa is called a third time.
C15_MfaThreshold ==
    /\ Cardinality(MfaRequiredAt) <= 2
    /\ Cardinality({ i \in 1..Len(oplog) : IsCall(oplog[i], "request_mfa") }) <= 2
    /\ Cardinality({ i \in 1..Len(oplog) : IsCall(oplog[i], "submit_mfa") }) <= 2
    /\ Cardinality(MfaRequiredAt) = 2 =>
          LET i == CHOOSE k \in MfaRequiredAt : \A j \in MfaRequiredAt : j <= k
              after == SubSeq(oplog, i + 1, Len(oplog)) IN
            /\ IsPrefix(OpsCalled(after), << "init_session", "login" >>)
            /\ after = <<>> => dpc = "init_session"
            /\ (Len(after) = 2 /\ after[2].v.ok) => dpc = "login"

C15_Witness ==
    /\ OpsCalled(oplog) = << "init_session", "login", "request_mfa", "submit_mfa",
                             "request_mfa", "submit_mfa", "init_session", "login" >>
    /\ Cardinality(MfaRequiredAt) = 2
    /\ dpc = "done"

\* the session is as BoursoWebClient::new() makes it
FreshSession ==
    /\ brs_mit_cookie = ""
    /\ token = ""
    /\ config = DefaultConfig
    /\ challenge_id = ""
    /\ virtual_pad_ids = <<>>
    /\ cookie_store = {}

\* C16: the init_session called when the threshold is reached runs on a
\* fresh session: the client holds no cookie, token, configuration or
\* keypad mapping of the session the MFA attempts were made on.
C16_FreshSessionAtThreshold ==
    [][(InitSessionCall /\ mfa_count = MFA_THRESHOLD) => FreshSession]_vars

\* C17: every submit_mfa is called with the challenge (identifier, kind and
\* form token) that the request_mfa called just before it returned, so no
\* challenge is passed twice, and its requests carry that challenge.
C17_ChallengeConsumedOnce ==
    /\ \A i \in 1..Len(oplog) :
          IsCall(oplog[i], "submit_mfa") =>
              /\ i > 1
              /\ IsOutcome(oplog[i - 1], "request_mfa")
              /\ oplog[i - 1].v.ok
              /\ oplog[i].v.otp_id = oplog[i - 1].v.v.otp_id
              /\ oplog[i].v.mfa_type = oplog[i - 1].v.v.mfa_type
              /\ oplog[i].v.token_form = oplog[i - 1].v.v.token_form
    /\ lpc = "sm_check" =>
          /\ Last(lrequests).path.otp_id = held.otp_id
          /\ Last(lrequests).path.action = check_path(held.mfa_type)
          /\ Last(lrequests).path.api = api_path(held.mfa_type)
    /\ lpc = "sm_validation" => Last(lrequests).form.token = held.token_form

C17_Witness ==
    LET submits == SelectSeq(oplog, LAMBDA x : IsCall(x, "submit_mfa")) IN
      /\ Len(submits) = 2
      /\ submits[1].v.otp_id = "otp1"
      /\ submits[1].v.mfa_type = "WebToApp"
      /\ submits[2].v.otp_id = "otp2"
      /\ submits[2].v.mfa_type = "Sms"
      /\ lpc = "sm_validation"

\* the front-end has returned, or the process has panicked
FrontEnded == dpc \in { "done", "failed" } \/ lpc = "panicked"

CallCount(op) == Cardinality({ i \in 1..Len(oplog) : IsCall(oplog[i], op) })

\* the outcomes of login that the front-end has seen
LoginOutcomes == SelectSeq(oplog, LAMBDA x : IsOutcome(x, "login"))

\* what the login has done so far: the calls made and the outcomes seen,
\* the requests sent, and whether the client has returned
LoginSteps ==
    4 * Len(oplog) + 2 * Len(lrequests)
        + (IF lpc \in { "idle", "panicked" } THEN 1 ELSE 0)

MaxLoginSteps == 4 * 16 + 2 * 32 + 1

\* C31: AuthService::login ends, after at most two rounds of request_mfa
\* and submit_mfa and at most two pairs of init_session and login; when the
\* second login fails, with MfaRequired or otherwise, the front-end returns
\* that failure and calls nothing more.  Ending is stated as: every step
\* adds to LoginSteps, LoginSteps is bounded, and a step can be taken until
\* the front-end has returned; with every enabled step taken (MfaFairSpec)
\* the front-end then returns.
C31_BoundedRetries ==
    /\ [](front = "auth" =>
            /\ CallCount("request_mfa") <= 2
            /\ CallCount("submit_mfa") <= 2
            /\ CallCount("init_session") <= 2
            /\ CallCount("login") <= 2
            /\ (Len(LoginOutcomes) = 2 /\ ~LoginOutcomes[2].v.ok) =>
                  /\ dpc = "failed"
                  /\ IsOutcome(Last(oplog), "login")
            /\ LoginSteps <= MaxLoginSteps
            /\ ~FrontEnded => ENABLED MfaNext)
    /\ [][front = "auth" => LoginSteps' > LoginSteps]_vars

\* the restarted login has answered MfaRequired and the front-end has
\* returned it
C31_Witness ==
    /\ front = "auth"
    /\ Len(LoginOutcomes) = 2
    /\ ~LoginOutcomes[2].v.ok
    /\ LoginOutcomes[2].v.v = "MfaRequired"
    /\ dpc = "failed"

\* the front-end has just seen the outcome of a call
OutcomeSeen == Len(oplog') = Len(oplog) + 1 /\ Last(oplog').e = "ret"

\* the keypad fragments an init_session can succeed with
ServedKeypads ==
    { f \in Fragments :
        f.io = "ok" /\ extract_challenge_token(f).ok /\ extract_data_matrix_keys(f).ok }

\* login has just submitted the login form
LoginFormSubmitted == lpc = "idle" /\ lpc' = "login_form"

\* C33: whenever login submits the login form, the form token is one that
\* init_session extracted, and the challenge id of the form and the keypad
\* mapping that encoded the password are those of one keypad fragment, one
\* that init_session succeeded with: never the challenge id of a fragment and
\* the mapping of another.
C33_OneKeypadPerChallenge ==
    [][LoginFormSubmitted =>
         /\ Last(lrequests').form.token # ""
         /\ \E f \in ServedKeypads :
               /\ Last(lrequests').form.matrixRandomChallenge = f.challenge
               /\ virtual_pad_ids = extract_data_matrix_keys(f).v]_vars

\* the answers to the MFA check that refuse the code: a status other than
\* 200, or a body with success=false
RefusedChecks ==
    { resp \in JsonResponses :
        resp.io = "ok" /\ (resp.status # 200 \/ resp.body = "false") }

\* what submit_mfa returns on them
CheckRefusals ==
    { success_of(resp, "Could not submit MFA code, status code",
                 "Could not submit MFA, response") : resp \in RefusedChecks }

\* C34: on a check answer with a status other than 200 or with
\* success=false submit_mfa returns an error that is not MfaRequired; a
\* check answer that makes submit_mfa return sends no further request and
\* leaves the session configuration as it was; the MFA loop of the auth
\* front-end then fails with that error and leaves mfa_count as it was.
C34_RefusedCheckStops ==
    /\ [](\A r \in CheckRefusals : ~r.ok /\ r.v \notin { "MfaRequired", PANIC })
    /\ [][lpc = "sm_check" /\ lpc' # "sm_validation" =>
            /\ lret'.op = "submit_mfa"
            /\ ~lret'.r.ok
            /\ lret'.r.v # "MfaRequired"
            /\ UNCHANGED << lrequests, config >>]_vars
    /\ [][(/\ front = "auth"
           /\ OutcomeSeen
           /\ Last(oplog').op = "submit_mfa"
           /\ Last(oplog').v \in CheckRefusals) =>
            /\ dpc' = "failed"
            /\ mfa_count' = mfa_count]_vars

\* the check of the second round was refused: the first round was counted,
\* the second is not, and the front-end has failed
C34_Witness ==
    /\ front = "auth"
    /\ dpc = "failed"
    /\ IsOutcome(Last(oplog), "submit_mfa")
    /\ Last(oplog).v.v = "Could not submit MFA, response"
    /\ Last(lrequests).method = "POST"
    /\ Last(lrequests).body = [token |-> MFA_CODE]
    /\ mfa_count = 1

\* C32: AuthService::login returns a client (dpc "done") only on a
\* successful outcome of login or submit_mfa, which is then the last step
\* made on the client; a failed outcome of init_session, login, request_mfa
\* or submit_mfa makes it return an error, unless it is MfaRequired from
\* login or submit_mfa, which starts or continues the MFA rounds; once an
\* error is returned no client is handed out.
C32_ClientOnlyAfterSuccess ==
    /\ [](front = "auth" /\ dpc = "done" =>
            /\ Last(oplog).e = "ret"
            /\ Last(oplog).op \in { "login", "submit_mfa" }
            /\ Last(oplog).v.ok)
    /\ [][front = "auth" /\ OutcomeSeen /\ ~Last(oplog').v.ok =>
            \/ dpc' = "failed"
            \/ /\ Last(oplog').op \in { "login", "submit_mfa" }
               /\ Last(oplog').v.v = "MfaRequired"
               /\ dpc' \in { "request_mfa", "init_session" }]_vars
    /\ [][front = "auth" /\ dpc = "failed" => dpc' = "failed"]_vars

\* the client is handed out after a second submit_mfa succeeded
C32_Witness ==
    /\ front = "auth"
    /\ dpc = "done"
    /\ IsOutcome(Last(oplog), "submit_mfa")
    /\ CallCount("submit_mfa") = 2

\* the answer the order call has just read has the status s and a body
\* that parses
Answered(f, s) ==
    /\ f.answer # NONE
    /\ f.answer[1].io = "ok"
    /\ f.answer[1].status = s
    /\ f.answer[1].parses

\* the request just sent goes to the step `step` of the order API
OrderRequestTo(step) ==
    /\ Len(lrequests') = Len(lrequests) + 1
    /\ Last(lrequests').path.path = step

\* C35: order sends prepare, then check, then confirm, each at most once in
\* a call: prepare when the call starts; check on a prepare answer with
\* status 200 and a body that parses; confirm on such a check answer, with
\* the resource id of the prepare answer; a request is sent at no other
\* step; and order returns an order id only on a confirm answer with status
\* 201 that parses.
C35_PrepareCheckConfirm ==
    /\ [][lpc' = "or_prepare" =>
            lpc = "idle" /\ OrderRequestTo("order/prepare")]_vars
    /\ [][lpc' = "or_check" =>
            /\ lpc = "or_prepare"
            /\ Answered(frame', 200)
            /\ OrderRequestTo("ordersimple/check")]_vars
    /\ [][lpc' = "or_confirm" =>
            /\ lpc = "or_check"
            /\ Answered(frame', 200)
            /\ OrderRequestTo("ordersimple/confirm")
            /\ Last(lrequests').body.resource_id = frame.response[1].resource_id]_vars
    /\ [][(frame'.op = "order" /\ lrequests' # lrequests) =>
            lpc' \in { "or_prepare", "or_check", "or_confirm" }]_vars
    /\ [][(frame'.op = "order" /\ lpc # "idle" /\ lpc' = "idle" /\ lret'.r.ok) =>
            lpc = "or_confirm" /\ Answered(frame', 201)]_vars

\* an order id has been returned after the three requests
C35_Witness ==
    /\ lpc = "idle"
    /\ lret.op = "order"
    /\ lret.r.ok
    /\ Len(lrequests) = 3
    /\ lrequests[3].body.resource_id = frame.response[1].resource_id
    /\ frame.answer[1].status = 201

\* the set-credit-account requests sent so far
CreditAccountRequests ==
    { i \in 1..Len(requests) : requests[i].name = "set_credit_account" }

\* C36: a set-credit-account request carries the destination account id,
\* flow step 2 and the flow-instance token, and beside them the
\* new-beneficiary field, set to 0, exactly when the source account is a
\* basic banking account; it carries no other field.
C36_CreditAccountForm ==
    \A i \in CreditAccountRequests :
        LET form == requests[i].form IN
          /\ form.credit = to_account.id
          /\ form.step = "2"
          /\ form.instance = flow_instance
          /\ ("newBeneficiary" \in DOMAIN form) = (from_account.kind = "Banking")
          /\ "newBeneficiary" \in DOMAIN form => form.newBeneficiary = "0"
          /\ DOMAIN form \subseteq { "newBeneficiary", "instance", "step", "credit" }

\* the request has been sent from an account that is not a banking account
C36_Witness ==
    /\ CreditAccountRequests # {}
    /\ from_account.kind # "Banking"
    /\ \A i \in CreditAccountRequests : DOMAIN requests[i].form = { "instance", "step", "credit" }

\* the transfer command has returned Ok(()) after "Transfer .. successful"
TransferReportedSuccessful ==
    /\ cmd.op = "transfer"
    /\ dpc = "done"
    /\ cmd_ret # <<>>
    /\ cmd_ret[1].ok

\* C37: the transfer command reports success only when the progress
\* sequence has emitted Completed and no error; once the sequence has
\* emitted an error, the next step of the command returns that error
\* without advancing the sequence, and the command, once failed, stays
\* failed.
C37_SuccessOnlyAfterCompleted ==
    /\ [](TransferReportedSuccessful =>
            /\ Ok("Completed") \in Range(events)
            /\ \A i \in 1..Len(events) : events[i].ok)
    /\ [][(cmd.op = "transfer" /\ dpc = "transfer" /\ ErrorYielded) =>
            /\ dpc' = "failed"
            /\ cmd_ret' = << Err(Last(events).v) >>
            /\ UNCHANGED << events, requests, pc >>]_vars
    /\ [][(cmd.op = "transfer" /\ dpc = "failed") =>
            dpc' = "failed" /\ UNCHANGED << cmd_ret, events, requests >>]_vars

\* the sequence emitted an error after its first request and the command
\* has returned it
C37_Witness ==
    /\ cmd.op = "transfer"
    /\ dpc = "failed"
    /\ requests # <<>>
    /\ events # <<>>
    /\ ~Last(events).ok
    /\ cmd_ret = << Err(Last(events).v) >>

\* the errors the HTTP front-end answers with 401
Unauthorized == { "InvalidCredentials", "MfaRequired" }

\* C39: a handler that fails answers 401 when the failure is
\* InvalidCredentials or MfaRequired and 500 on any other failure; after a
\* failed init_session or login it calls nothing more on the client and
\* sends no request.
C39_FailureStatus ==
    /\ [](front = "http" /\ dpc = "failed" =>
            /\ Last(oplog).e = "ret"
            /\ ~Last(oplog).v.ok
            /\ cmd_ret = << [status |-> IF Last(oplog).v.v \in Unauthorized
                                        THEN 401 ELSE 500] >>)
    /\ [](front = "http" =>
            \A i \in 1..Len(oplog) :
                (oplog[i].e = "ret" /\ ~oplog[i].v.ok) => i = Len(oplog))
    /\ [][front = "http" /\ dpc = "failed" =>
            UNCHANGED << oplog, lrequests, lpc, dpc, cmd_ret >>]_vars

\* login failed with MfaRequired and the handler has answered 401
C39_Witness ==
    /\ front = "http"
    /\ dpc = "failed"
    /\ IsOutcome(Last(oplog), "login")
    /\ Last(oplog).v.v = "MfaRequired"
    /\ cmd_ret = << [status |-> 401] >>

\* ------------------------------------------------------------------------
\* Properties of the authenticated operations
\* ------------------------------------------------------------------------
\* the positions of a call of get_accounts, get_trading_summary or order
\* that has a request in flight
AwaitingAccountData == { "ga_page", "ts_response", "or_prepare", "or_check", "or_confirm" }

\* C12: get_accounts, get_trading_summary and order send an HTTP request
\* only on a client on which a login or a submit_mfa has returned Ok.
C12_NoRequestBeforeAuthentication ==
    [][(lrequests' # lrequests /\ lpc' \in AwaitingAccountData) => authenticated]_vars

\* ------------------------------------------------------------------------
\* Properties of request_mfa and submit_mfa
\* ------------------------------------------------------------------------
\* request_mfa has read the verification page (frame.res)
MfaPageRead ==
    /\ frame.op = "request_mfa"
    /\ frame.step >= Len(RM_PATHS)
    /\ lpc # "rm_get"
    /\ frame.res.io = "ok"

\* the kind shown by the page request_mfa has read: email before SMS
\* before in-app approval
ShownEmail == "brs-otp-email" \in frame.res.markers
ShownSms == ~ShownEmail /\ "brs-otp-sms" \in frame.res.markers
ShownWebToApp == ~ShownEmail /\ ~ShownSms /\ "brs-otp-webtoapp" \in frame.res.markers

\* the page has all request_mfa reads from it for an email or SMS challenge
CompletePage ==
    /\ frame.res.config = "ok"
    /\ frame.res.start # None
    /\ frame.res.contact
    /\ frame.res.token

\* the start request has been sent and is the last request
StartRequestSent(api, action) ==
    /\ lrequests # <<>>
    /\ Last(lrequests).method = "POST"
    /\ Last(lrequests).path.api = api
    /\ Last(lrequests).path.action = action
    /\ Last(lrequests).path.otp_id = frame.res.start

RequestMfaOver == lpc = "idle" /\ lret.op = "request_mfa"

MfaLandingClassified ==
    /\ lpc \in { "idle", "panicked" }
    /\ lret.op = "submit_mfa"
    /\ frame.op = "submit_mfa"
    /\ page.io = "ok"

\* after a successful check the form token is posted to the validation endpoint
ValidationSubmitted ==
    lpc = "sm_validation" =>
        /\ Last(lrequests).method = "POST"
        /\ Last(lrequests).path = "/securisation/authentification/validation"
        /\ Last(lrequests).form.token = frame.args.token_form

\* C19 as stated: after a successful check submit_mfa posts the
\* confirmation token to the validation endpoint, and for every landing
\* page it returns what login returns for that page (Ok with the
\* configuration of the page stored, MfaRequired or InvalidCredentials).
C19_SameClassification_AsStated ==
    /\ ValidationSubmitted
    /\ MfaLandingClassified =>
          /\ lret.r = classify_landing(page, info_enabled)
          /\ lret.r.ok => config = extract_brs_config(page.config).v

\* C19 amended: after a successful check submit_mfa posts the confirmation
\* token to the validation endpoint, and for every landing page with the
\* log-out link or the security-check hint it returns what login returns
\* for that page (Ok with the configuration of the page stored,
\* MfaRequired); for a page with neither, where login returns
\* InvalidCredentials, it returns the untyped error "Could not submit MFA,
\* response".
C19_SameClassification ==
    /\ ValidationSubmitted
    /\ MfaLandingClassified =>
          /\ (page.logout \/ page.securisation) =>
                lret.r = classify_landing(page, info_enabled)
          /\ (~page.logout /\ ~page.securisation) =>
                /\ lret.r = Err("Could not submit MFA, response")
                /\ classify_landing(page, info_enabled) = Err("InvalidCredentials")
          /\ lret.r.ok =>
                /\ page.logout
                /\ config = extract_brs_config(page.config).v

C19_Witness ==
    /\ MfaLandingClassified
    /\ ~page.logout
    /\ ~page.securisation
    /\ lret.r = Err("Could not submit MFA, response")
    /\ Last(lrequests).path = "/"

\* ------------------------------------------------------------------------
\* Properties of the keypad decoding
\* ------------------------------------------------------------------------
\* the keys of the fragment show the 10 digits once each
ShowsEachDigitOnce(keys) ==
    /\ Len(keys) = 10
    /\ \A d \in 1..10 : Cardinality({ i \in 1..Len(keys) : keys[i].svg = SVG_OF_DIGIT[d] }) = 1

\* C20: for every keypad fragment with 10 keys that show the 10 digits once
\* each, in any order, decoding yields a mapping of 10 slots in which slot d
\* holds the identifier of the key showing digit d, every slot is populated
\* and no identifier is in two slots.
C20_DecodingBijection ==
    (pad_keys # NotDecoded /\ ShowsEachDigitOnce(pad_res.keys)) =>
        /\ pad_keys[1].ok
        /\ Len(pad_keys[1].v) = 10
        /\ \A i \in 1..10 : \A d \in 0..9 :
              pad_res.keys[i].svg = SVG_OF_DIGIT[d + 1] =>
                  pad_keys[1].v[d + 1] = pad_res.keys[i].key
        /\ \A d \in 1..10 : pad_keys[1].v[d] # ""
        /\ \A d, f \in 1..10 : pad_keys[1].v[d] = pad_keys[1].v[f] => d = f

C20_Witness ==
    /\ pad_res.keys = Keys(ReversedFrom(3))
    /\ pad_keys # NotDecoded
    /\ pad_keys[1].ok
    /\ pad_keys[1].v = << "CCC", "BBB", "AAA", "JJJ", "III", "HHH", "GGG", "FFF", "EEE", "DDD" >>

\* the fragment has fewer than 10 keys, a key whose glyph is no digit, or
\* two keys showing the same digit
FewerKeys(keys) == Len(keys) < 10
UnrecognizedGlyph(keys) ==
    \E i \in 1..Len(keys) : \A d \in 1..10 : keys[i].svg # SVG_OF_DIGIT[d]
RepeatedDigit(keys) ==
    \E i, j \in 1..Len(keys) : i # j /\ keys[i].svg = keys[j].svg /\ keys[i].svg # UNKNOWN_SVG

\* C21: decoding a fragment with fewer than 10 keys, with an unrecognized
\* glyph or with two keys showing the same digit fails with an error and
\* returns no mapping.
C21_NoPartialMapping ==
    (pad_keys # NotDecoded
        /\ (FewerKeys(pad_res.keys) \/ UnrecognizedGlyph(pad_res.keys)
              \/ RepeatedDigit(pad_res.keys))) =>
        ~pad_keys[1].ok

\* ------------------------------------------------------------------------
\* Properties of the password encoding
\* ------------------------------------------------------------------------
AllDigits(pw) == \A i \in 1..Len(pw) : pw[i] \in 0..9

\* C22: against a complete mapping, a password of n decimal digits is
\* encoded as n key identifiers, the i-th being the slot of the i-th digit;
\* a password with a character that is no digit fails with an error and
\* yields no encoding.
C22_EncodingPreservesOrder ==
    (pad_enc # <<>> /\ Resolved(pad_keys[1].v)) =>
        /\ AllDigits(pad_pw) =>
              /\ pad_enc[1].ok
              /\ Len(pad_enc[1].v) = Len(pad_pw)
              /\ \A i \in 1..Len(pad_pw) : pad_enc[1].v[i] = pad_keys[1].v[pad_pw[i] + 1]
        /\ ~AllDigits(pad_pw) =>
              /\ ~pad_enc[1].ok
              /\ pad_enc[1].v = "Invalid character in password"

C22_Witness ==
    /\ pad_res.keys = Keys(Reversed)
    /\ pad_pw = << 1, 2, 3, 6, 5, 4 >>
    /\ pad_enc # <<>>
    /\ pad_enc[1].ok
    /\ pad_enc[1].v = << "III", "HHH", "GGG", "DDD", "EEE", "FFF" >>

\* ------------------------------------------------------------------------
\* Properties of the accounts listing
\* ------------------------------------------------------------------------
\* 100 times the amount shown, with the sign shown: the whole part counts
\* hundreds of cents, one decimal digit tenths, two decimal digits cents
ShownCents(b) ==
    LET whole == DecimalValue(Joined(b.groups, <<>>))
        frac == IF Len(b.dec) = 1 THEN 10 * DigitValue(b.dec[1]) ELSE DecimalValue(b.dec)
        cents == 100 * whole + frac IN
      IF b.neg = "" THEN cents ELSE 0 - cents

\* C24: for every balance text the account pattern accepts (with or
\* without separators between groups of digits, with or without a minus
\* sign, with zero, one or two decimal digits), the parsed balance is 100
\* times the amount shown, with the sign shown.
C24_BalanceInMinorUnits ==
    bal_parsed # <<>> =>
        /\ bal_parsed[1].ok
        /\ bal_parsed[1].v = ShownCents(bal_shown)

\* get_accounts has read the accounts page (frame.res) and is over
AccountsListed ==
    /\ lpc = "idle"
    /\ lret.op = "get_accounts"
    /\ frame.op = "get_accounts"
    /\ frame.res.io = "ok"

\* C23: for every listing page that has no section for the requested kind,
\* extract_accounts and get_accounts called with that kind return an empty
\* list and not an error.
C23_UnrelatedKindIsEmpty ==
    (AccountsListed /\ frame.kind # None /\ frame.kind \notin DOMAIN frame.res.sections) =>
        /\ extract_accounts(frame.res, frame.kind).ok
        /\ Len(extract_accounts(frame.res, frame.kind).v) = 0
        /\ lret.r.ok
        /\ Len(lret.r.v) = 0

\* ------------------------------------------------------------------------
\* Properties of a client shared by operations
\* ------------------------------------------------------------------------
\* a transfer has sent a request, has not ended and is still advanced
TransferInFlight == requests # <<>> /\ ~Ended /\ caller # "dropped"

\* C25: no other operation sends a request on the client between the
\* first and the last request of a transfer that is still being advanced.
C25_NoInterleaving ==
    [][lrequests' # lrequests => ~TransferInFlight]_vars

\* ------------------------------------------------------------------------
\* Properties of the trading operations
\* ------------------------------------------------------------------------
\* this step is a call of order or of get_trading_summary
TradingCalled ==
    /\ calls' = calls + 1
    /\ frame'.op \in { "order", "get_trading_summary" }

\* C26: order and get_trading_summary given an account that is not a
\* trading account, or called on a session that holds no user hash, return
\* an error within the call and send no request.
C26_LocalPreconditions ==
    [][(TradingCalled /\ (frame'.account.kind # "Trading" \/ config.user_hash = None)) =>
          /\ lrequests' = lrequests
          /\ lpc' = "idle"
          /\ lret'.op = frame'.op
          /\ ~lret'.r.ok]_vars

\* order was called with a trading account on a session without a user
\* hash, and has returned an error with no request sent
C26_Witness ==
    /\ calls = 1
    /\ lpc = "idle"
    /\ frame.op = "order"
    /\ frame.account.kind = "Trading"
    /\ config.user_hash = None
    /\ lret.op = "order"
    /\ ~lret.r.ok
    /\ lrequests = <<>>

\* C27: the order data sent to the check step carries the side and the
\* quantity of the call, whatever the prepare response and the order_data
\* argument hold.
C27_CallerSideAndQuantity ==
    (frame.op = "order" /\ lpc = "or_check") =>
        /\ Last(lrequests).body.order_side = Some(frame.side)
        /\ Last(lrequests).body.order_quantity = Some(frame.quantity)

\* the fields of the order data that order() fills
FilledFields ==
    { "order_price_limit", "order_expiration_date", "order_quantity", "order_side" }

\* C38: when the caller passes order data, every one of the price limit, the
\* expiration date, the quantity and the side that it sets reaches the check
\* step as the caller set it; a quantity or side it leaves unset is that of
\* the call, an expiration date it leaves unset the validity of the prepare
\* response.
C38_OnlyUnsetFieldsFilled ==
    (frame.op = "order" /\ lpc = "or_check" /\ frame.order_data # NONE) =>
        LET given == frame.order_data[1]
            sent == Last(lrequests).body IN
          /\ \A fld \in FilledFields : given[fld] # NONE => sent[fld] = given[fld]
          /\ given.order_quantity = NONE => sent.order_quantity = Some(frame.quantity)
          /\ given.order_side = NONE => sent.order_side = Some(frame.side)
          /\ given.order_expiration_date = NONE =>
                sent.order_expiration_date = frame.response[1].prefill_order_data.order_validity

\* ------------------------------------------------------------------------
\* Properties of MoneyAmount
\* ------------------------------------------------------------------------
\* a finite amount with no digit past the second decimal place
AtMostTwoDecimals(v) == v.kind = "finite" /\ v.milli % 10 = 0

\* C28: MoneyAmount::new(v) returns the amount exactly when v is above
\* zero and has at most two decimal places, and the money-amount value
\* error otherwise.
C28_PositiveTwoDecimals ==
    money_new # <<>> =>
        /\ money_new[1].ok <=> (positive(money_arg[1]) /\ AtMostTwoDecimals(money_arg[1]))
        /\ ~money_new[1].ok => money_new[1].v = "ValueError::MoneyAmount"

\* ------------------------------------------------------------------------
\* Properties of the transfer and order commands
\* ------------------------------------------------------------------------
\* the front-end has fetched the listing of the accounts
ListingFetched ==
    /\ front \in CommandFronts
    /\ Len(oplog) >= 2
    /\ oplog[2].e = "ret"
    /\ oplog[2].op = "get_accounts"
    /\ oplog[2].v.ok

FetchedIds == { oplog[2].v.v[i].id : i \in 1..Len(oplog[2].v.v) }

\* the command names an account that the fetched listing does not hold
NamesAbsentAccount ==
    IF cmd.op = "transfer" THEN cmd.from \notin FetchedIds \/ cmd.to \notin FetchedIds
    ELSE cmd.account \notin FetchedIds

\* the client has sent a request after the one that fetched the listing
\* (the order steps are the only requests a command sends on it)
OrderRequestSent == Len(lrequests) > 1

LogoutLinkSeen ==
    \E i \in 1..Len(leg_pages) :
        /\ leg_pages[i].step \in { "landing", "sa_landing" }
        /\ leg_pages[i].page.io = "ok"
        /\ leg_pages[i].page.logout

\* C30: the legacy login returns Ok only if a landing page with the
\* log-out link was received, directly or at the end of the hand-off; a
\* hand-off that fails or returns an error makes login return an error.
C30_SuccessOnlyWhenConfirmed ==
    (leg_ret # <<>> /\ leg_ret[1].ok) => LogoutLinkSeen
====
